---- MODULE Spec2Model ----
(***************************************************************************)
(* Model of the slide-deck rendering and data-mapping engine               *)
(* (src/src/ppt_builder.py): PPTBuilder._get_table_data, the table data    *)
(* resolver, the sizing computation and the cell rendering of              *)
(* PPTBuilder.add_table; and of the orchestrator PPTGenerator              *)
(* (src/src/ppt_generator.py): construction, generate, and the generation  *)
(* of content and table pages with their charts.                           *)
(*                                                                         *)
(* Names are Python strings, modelled as TLA+ strings (sequences of        *)
(* characters); dicts are functions whose DOMAIN is the set of keys, so    *)
(* mapping.get(k) is "k \in DOMAIN mapping"; ordered dicts whose order     *)
(* matters (the data store, a workbook's sheets) are sequences of entries. *)
(***************************************************************************)
EXTENDS Integers, Sequences, FiniteSets, TLC

VARIABLES
  data,                   \* _get_table_data: the DataStore argument
  mapping,                \* _get_table_data: the mapping argument (a dict)
  return_column_mapping,  \* _get_table_data: the flag argument
  result,                 \* _get_table_data: the value returned
  pc,                     \* position of the call: "idle", "ready", "returned"
  sizing,                 \* add_table: arguments, local variables and position
  gen,                    \* PPTGenerator: its fields, the files it reads and writes
  rendering,              \* add_table: one data cell, its value and rendered text
  heading,                \* one page: its title and subtitle, statement by statement
  styling                 \* add_table: the rows, their types and the style of the cells

-----------------------------------------------------------------------------
(* Python str methods, computed character by character.                    *)

\* the lower-case letter of each upper-case letter
LowerOf ==
  [A |-> "a", B |-> "b", C |-> "c", D |-> "d", E |-> "e", F |-> "f",
   G |-> "g", H |-> "h", I |-> "i", J |-> "j", K |-> "k", L |-> "l",
   M |-> "m", N |-> "n", O |-> "o", P |-> "p", Q |-> "q", R |-> "r",
   S |-> "s", T |-> "t", U |-> "u", V |-> "v", W |-> "w", X |-> "x",
   Y |-> "y", Z |-> "z"]

Ch(s, i) == SubSeq(s, i, i)

LowerChar(c) == IF c \in DOMAIN LowerOf THEN LowerOf[c] ELSE c

RECURSIVE StrLower(_)
StrLower(s) ==
  IF Len(s) = 0 THEN "" ELSE LowerChar(Ch(s, 1)) \o StrLower(SubSeq(s, 2, Len(s)))

RECURSIVE StrLStrip(_)
StrLStrip(s) ==
  IF Len(s) > 0 /\ Ch(s, 1) = " " THEN StrLStrip(SubSeq(s, 2, Len(s))) ELSE s

RECURSIVE StrRStrip(_)
StrRStrip(s) ==
  IF Len(s) > 0 /\ Ch(s, Len(s)) = " " THEN StrRStrip(SubSeq(s, 1, Len(s) - 1)) ELSE s

StrStrip(s) == StrRStrip(StrLStrip(s))

\* Python's "sub in s"
StrIn(sub, s) ==
  \E i \in 0..(Len(s) - Len(sub)) : SubSeq(s, i + 1, i + Len(sub)) = sub

\* s.replace('_', ' ').replace('-', ' ').replace('.', ' ')
RECURSIVE ReplaceSeparators(_)
ReplaceSeparators(s) ==
  IF Len(s) = 0 THEN ""
  ELSE (IF Ch(s, 1) \in {"_", "-", "."} THEN " " ELSE Ch(s, 1))
         \o ReplaceSeparators(SubSeq(s, 2, Len(s)))

\* ' '.join(s.split()): runs of blanks become one blank, none at the ends
RECURSIVE SqueezeBlanks(_)
SqueezeBlanks(s) ==
  IF Len(s) < 2 THEN s
  ELSE IF Ch(s, 1) = " " /\ Ch(s, 2) = " " THEN SqueezeBlanks(SubSeq(s, 2, Len(s)))
  ELSE Ch(s, 1) \o SqueezeBlanks(SubSeq(s, 2, Len(s)))

JoinSplit(s) == StrStrip(SqueezeBlanks(s))

CleanName(s) == JoinSplit(ReplaceSeparators(s))

-----------------------------------------------------------------------------
(* Tables (pandas DataFrames): an ordered list of column names and a list  *)
(* of rows, each row a list of cells in column order.                      *)

Num(n) == [num |-> n, txt |-> ""]
Txt(s) == [num |-> 0, txt |-> s]
NaN == [num |-> 0, txt |-> "NaN"]

Table(cols, rows) == [cols |-> cols, rows |-> rows]

\* pd.DataFrame({col: [msg]}): one column, one row, a diagnostic string
Placeholder(col, msg) == Table(<<col>>, << <<Txt(msg)>> >>)

NoTable == Table(<<>>, <<>>)

ColIndex(cols, c) == CHOOSE i \in 1..Len(cols) : cols[i] = c

InSeq(x, s) == \E i \in 1..Len(s) : s[i] = x

\* dict.get(key) is not None
Has(m, k) == k \in DOMAIN m

\* dict.get(key) is truthy, for a string value and for an integer value
TruthyStr(m, k) == Has(m, k) /\ m[k] # ""

TruthyInt(m, k) == Has(m, k) /\ m[k] # 0

\* result_df[mask]: the rows whose cell in column ci passes the comparison;
\* a comparison with NaN is False, except != which is True
RECURSIVE SelectRows(_, _, _, _)
SelectRows(rows, ci, op, value) ==
  IF Len(rows) = 0 THEN <<>>
  ELSE LET cell == Head(rows)[ci]
           keep == CASE op = "notna" -> cell # NaN
                     [] op = "!=" -> cell # value
                     [] op = "==" -> cell # NaN /\ cell = value
                     [] op = ">=" -> cell # NaN /\ cell.num >= value.num
                     [] op = "<=" -> cell # NaN /\ cell.num <= value.num
       IN (IF keep THEN <<Head(rows)>> ELSE <<>>)
            \o SelectRows(Tail(rows), ci, op, value)

\* one filter_def of mapping["filters"]
ApplyFilter(df, filter_def) ==
  LET column == IF Has(filter_def, "column") THEN filter_def.column ELSE ""
      operator == IF Has(filter_def, "operator") THEN filter_def.operator ELSE "!="
      hasValue == Has(filter_def, "value")
  IN IF ~InSeq(column, df.cols) THEN df
     ELSE LET ci == ColIndex(df.cols, column)
          IN CASE operator = "!=" /\ ~hasValue ->
                    Table(df.cols, SelectRows(df.rows, ci, "notna", NaN))
               [] operator = "notna" ->
                    Table(df.cols, SelectRows(df.rows, ci, "notna", NaN))
               [] operator \in {"!=", ">=", "<=", "=="} /\ hasValue ->
                    Table(df.cols, SelectRows(df.rows, ci, operator, filter_def.value))
               [] OTHER -> df

RECURSIVE ApplyFilters(_, _)
ApplyFilters(df, filters) ==
  IF Len(filters) = 0 THEN df
  ELSE ApplyFilters(ApplyFilter(df, Head(filters)), Tail(filters))

\* result_df.head(max_rows), max_rows >= 0
HeadRows(df, n) ==
  Table(df.cols, SubSeq(df.rows, 1, IF n < Len(df.rows) THEN n ELSE Len(df.rows)))

\* a selection that keeps the order of the source: df[[c for c in df if c in cols]]
SelectColumnsSourceOrder(df, cols) ==
  LET Kept(i) == Cardinality({k \in 1..i : InSeq(df.cols[k], cols)})
      count == Kept(Len(df.cols))
      At(j) == CHOOSE i \in 1..Len(df.cols) : InSeq(df.cols[i], cols) /\ Kept(i) = j
  IN Table([j \in 1..count |-> df.cols[At(j)]],
           [r \in 1..Len(df.rows) |-> [j \in 1..count |-> df.rows[r][At(j)]]])

\* result_df[cols]: the named columns, in the order given
SelectColumns(df, cols) ==
  Table(cols,
        [r \in 1..Len(df.rows) |->
           [j \in 1..Len(cols) |-> df.rows[r][ColIndex(df.cols, cols[j])]]])

-----------------------------------------------------------------------------
(* Name lookup in the store and in a workbook's sheets.  An entry is       *)
(* [key, kind, table, sheets]; kind is "table" (a DataFrame), "sheets" (a  *)
(* dict of sheets) or "other" (any other type).  The result is the index   *)
(* of the entry found, 0 when no key matches.                              *)

\* the first position of a loop over the keys at which the test succeeds
\* (the loop breaks there), 0 when it never does
FirstTrue(hits) ==
  IF \E i \in 1..Len(hits) : hits[i]
    THEN CHOOSE i \in 1..Len(hits) : hits[i] /\ \A j \in 1..(i - 1) : ~hits[j]
    ELSE 0

FindSource(d, data_source_normalized) ==
  LET data_source_lower == StrLower(data_source_normalized)
      exact == [i \in 1..Len(d) |-> d[i].key = data_source_normalized]
      case_insensitive ==
        [i \in 1..Len(d) |-> StrLower(StrStrip(d[i].key)) = data_source_lower]
      partial ==
        [i \in 1..Len(d) |->
           LET key_str == StrLower(StrStrip(d[i].key))
           IN StrIn(data_source_lower, key_str) \/ StrIn(key_str, data_source_lower)]
  IN IF FirstTrue(exact) # 0 THEN FirstTrue(exact)
     ELSE IF FirstTrue(case_insensitive) # 0 THEN FirstTrue(case_insensitive)
     ELSE FirstTrue(partial)

FindSheet(sheets, sheet_name) ==
  LET sheet_lower == StrStrip(StrLower(sheet_name))
      exact == [i \in 1..Len(sheets) |-> sheets[i].key = sheet_name]
      case_insensitive ==
        [i \in 1..Len(sheets) |-> StrStrip(StrLower(sheets[i].key)) = sheet_lower]
      partial ==
        [i \in 1..Len(sheets) |->
           LET key_str == StrStrip(StrLower(sheets[i].key))
           IN StrIn(sheet_lower, key_str) \/ StrIn(key_str, sheet_lower)]
  IN IF FirstTrue(exact) # 0 THEN FirstTrue(exact)
     ELSE IF FirstTrue(case_insensitive) # 0 THEN FirstTrue(case_insensitive)
     ELSE FirstTrue(partial)

-----------------------------------------------------------------------------
(* Column matching.  "" stands for both None and the empty name: the code  *)
(* tests matched_col by truthiness only.                                   *)

\* the first name of a loop over the columns at which the test succeeds
FirstName(names, hits) == IF FirstTrue(hits) = 0 THEN "" ELSE names[FirstTrue(hits)]

\* Strategy 1: exact match (case-sensitive)
MatchExact(user_col_str, available_columns) ==
  IF InSeq(user_col_str, available_columns) THEN user_col_str ELSE ""

\* Strategy 2: case-insensitive, whitespace-insensitive
MatchCaseInsensitive(user_col_str, available_columns) ==
  LET user_col_normalized == StrStrip(StrLower(user_col_str))
      same == [i \in 1..Len(available_columns) |->
                 StrLower(StrStrip(available_columns[i])) = user_col_normalized]
  IN FirstName(available_columns, same)

\* Strategy 3: one name contains the other; a strictly shorter candidate
\* replaces the one held so far
RECURSIVE PartialScan(_, _, _)
PartialScan(user_col_normalized, available_columns, matched_col) ==
  IF Len(available_columns) = 0 THEN matched_col
  ELSE LET avail_col == Head(available_columns)
           avail_col_normalized == StrLower(StrStrip(avail_col))
           hit == /\ \/ StrIn(user_col_normalized, avail_col_normalized)
                     \/ StrIn(avail_col_normalized, user_col_normalized)
                  /\ (matched_col = "" \/ Len(avail_col) < Len(matched_col))
       IN PartialScan(user_col_normalized, Tail(available_columns),
                      IF hit THEN avail_col ELSE matched_col)

MatchPartial(user_col_str, available_columns) ==
  PartialScan(StrStrip(StrLower(user_col_str)), available_columns, "")

\* a fuzzy match that compares the letters used, whatever their order
MatchFuzzyAnyOrder(user_col_str, available_columns) ==
  LET Letters(s) == {Ch(s, i) : i \in 1..Len(s)}
      user_col_clean == CleanName(StrStrip(StrLower(user_col_str)))
      same == [i \in 1..Len(available_columns) |->
                 Letters(CleanName(StrLower(StrStrip(available_columns[i]))))
                   = Letters(user_col_clean)]
  IN FirstName(available_columns, same)

\* Strategy 4: equal once '_', '-', '.' are blanks and blanks are squeezed
MatchFuzzy(user_col_str, available_columns) ==
  LET user_col_clean == CleanName(StrStrip(StrLower(user_col_str)))
      same == [i \in 1..Len(available_columns) |->
                 CleanName(StrLower(StrStrip(available_columns[i]))) = user_col_clean]
  IN FirstName(available_columns, same)

\* the strategies with the fuzzy comparison tried before the substring one
MatchColumnFuzzyFirst(user_col, available_columns) ==
  LET Matched(m1, m2, m3, m4) ==
        [col |-> m4,
         match_type |-> CASE m1 # "" -> "exact"
                          [] m1 = "" /\ m2 # "" -> "case_insensitive"
                          [] m2 = "" /\ m3 # "" -> "fuzzy"
                          [] m3 = "" /\ m4 # "" -> "partial"
                          [] OTHER -> "none"]
      Strategy4(user_col_str, m1, m2, m3) ==
        Matched(m1, m2, m3,
                IF m3 = "" THEN MatchPartial(user_col_str, available_columns) ELSE m3)
      Strategy3(user_col_str, m1, m2) ==
        Strategy4(user_col_str, m1, m2,
                  IF m2 = "" THEN MatchFuzzy(user_col_str, available_columns) ELSE m2)
      Strategy2(user_col_str, m1) ==
        Strategy3(user_col_str, m1,
                  IF m1 = "" THEN MatchCaseInsensitive(user_col_str, available_columns)
                  ELSE m1)
      Strategy1(user_col_str) ==
        Strategy2(user_col_str, MatchExact(user_col_str, available_columns))
  IN Strategy1(StrStrip(user_col))

\* the four strategies in the order of the code, each tried only while
\* matched_col is still falsy
MatchColumn(user_col, available_columns) ==
  LET Matched(m1, m2, m3, m4) ==
        [col |-> m4,
         match_type |-> CASE m1 # "" -> "exact"
                          [] m1 = "" /\ m2 # "" -> "case_insensitive"
                          [] m2 = "" /\ m3 # "" -> "partial"
                          [] m3 = "" /\ m4 # "" -> "fuzzy"
                          [] OTHER -> "none"]
      Strategy4(user_col_str, m1, m2, m3) ==
        Matched(m1, m2, m3,
                IF m3 = "" THEN MatchFuzzy(user_col_str, available_columns) ELSE m3)
      Strategy3(user_col_str, m1, m2) ==
        Strategy4(user_col_str, m1, m2,
                  IF m2 = "" THEN MatchPartial(user_col_str, available_columns) ELSE m2)
      Strategy2(user_col_str, m1) ==
        Strategy3(user_col_str, m1,
                  IF m1 = "" THEN MatchCaseInsensitive(user_col_str, available_columns)
                  ELSE m1)
      Strategy1(user_col_str) ==
        Strategy2(user_col_str, MatchExact(user_col_str, available_columns))
  IN Strategy1(StrStrip(user_col))

\* a matched column that is not already in matched_cols is appended and
\* recorded under the requested name; a repeat is dropped with a warning
RecordMatch(user_col, matched_col, acc) ==
  IF matched_col # "" /\ ~InSeq(matched_col, acc.matched_cols)
    THEN [matched_cols |-> Append(acc.matched_cols, matched_col),
          column_mapping_dict |-> (user_col :> matched_col) @@ acc.column_mapping_dict]
    ELSE acc

\* the loop over columns_to_find
RECURSIVE MatchAll(_, _, _)
MatchAll(columns_to_find, available_columns, acc) ==
  IF Len(columns_to_find) = 0 THEN acc
  ELSE LET user_col == Head(columns_to_find)
       IN MatchAll(Tail(columns_to_find), available_columns,
                   RecordMatch(user_col, MatchColumn(user_col, available_columns).col, acc))

\* ordered_matched_cols: the recorded columns in the order of the request
RECURSIVE OrderedMatchedCols(_, _, _)
OrderedMatchedCols(columns_to_find, column_mapping_dict, ordered) ==
  IF Len(columns_to_find) = 0 THEN ordered
  ELSE LET user_col == Head(columns_to_find)
           next == IF /\ user_col \in DOMAIN column_mapping_dict
                      /\ ~InSeq(column_mapping_dict[user_col], ordered)
                     THEN Append(ordered, column_mapping_dict[user_col])
                     ELSE ordered
       IN OrderedMatchedCols(Tail(columns_to_find), column_mapping_dict, next)

-----------------------------------------------------------------------------
(* PPTBuilder._get_table_data.  The value returned is [kind, table,        *)
(* column_mapping]: kind "none" is None, "table" a bare DataFrame, "pair"  *)
(* the tuple (DataFrame, column mapping).                                  *)

EmptyDict == <<>>

ReturnNone == [kind |-> "none", table |-> NoTable, column_mapping |-> EmptyDict]

ReturnTable(df) == [kind |-> "table", table |-> df, column_mapping |-> EmptyDict]

ReturnPair(df, column_mapping) ==
  [kind |-> "pair", table |-> df, column_mapping |-> column_mapping]

IdentityMapping(df) == [c \in {df.cols[i] : i \in 1..Len(df.cols)} |-> c]

\* lines 1007-1029: row cap, then the return without column selection
CapRows(result_df, m) ==
  IF TruthyInt(m, "max_rows") THEN HeadRows(result_df, m.max_rows) ELSE result_df

ReturnAllColumns(result_df, m, rcm) ==
  LET capped == CapRows(result_df, m)
  IN IF rcm THEN ReturnPair(capped, IdentityMapping(capped)) ELSE ReturnTable(capped)

\* lines 986-990: the return inside the column selection branch
ReturnSelected(result_df, column_mapping_dict, m, rcm) ==
  IF rcm THEN ReturnPair(result_df, column_mapping_dict) ELSE ReturnTable(result_df)

\* a selection that is used even when it is empty
ProcessTableNoFallback(df, m, rcm) ==
  LET filters == IF Has(m, "filters") THEN m.filters ELSE <<>>
      result_df == ApplyFilters(df, filters)
  IN IF Has(m, "columns") /\ Len(m.columns) > 0
       THEN LET found == MatchAll(m.columns, result_df.cols,
                                  [matched_cols |-> <<>>, column_mapping_dict |-> EmptyDict])
            IN ReturnSelected(
                 SelectColumns(result_df,
                   OrderedMatchedCols(m.columns, found.column_mapping_dict, <<>>)),
                 found.column_mapping_dict, m, rcm)
       ELSE ReturnAllColumns(result_df, m, rcm)

\* lines 870-1029: filters, column selection, row cap
ProcessTable(df, m, rcm) ==
  LET filters == IF Has(m, "filters") THEN m.filters ELSE <<>>
      Selection(result_df, found) ==
        IF Len(found.matched_cols) > 0
          THEN ReturnSelected(
                 SelectColumns(result_df,
                   OrderedMatchedCols(m.columns, found.column_mapping_dict, <<>>)),
                 found.column_mapping_dict, m, rcm)
          ELSE ReturnAllColumns(result_df, m, rcm)
      ColumnSelection(result_df) ==
        IF Has(m, "columns") /\ Len(m.columns) > 0
          THEN Selection(result_df,
                         MatchAll(m.columns, result_df.cols,
                                  [matched_cols |-> <<>>, column_mapping_dict |-> EmptyDict]))
          ELSE ReturnAllColumns(result_df, m, rcm)
  IN ColumnSelection(ApplyFilters(df, filters))

\* a fallback to the last source of the store
FallbackSourceLast(d) == Len(d)

\* lines 792-802: what stands in when no key of the store matched
FallbackSource(d) == 1

\* lines 804-859: from the source entry to a DataFrame, or a placeholder
ResolveSheet(df_source, m, rcm) ==
  LET sheets == df_source.sheets
      \* df: the DataFrame found, or the placeholder returned in its place
      FromSheet(si) ==
        IF TruthyStr(m, "sheet") /\ si = 0
          THEN [found |-> FALSE,
                df |-> Placeholder("Message", "Sheet '" \o m.sheet \o "' not found")]
        ELSE IF si = 0 \/ sheets[si].kind # "table"
          THEN [found |-> FALSE, df |-> Placeholder("Message", "No data available")]
        ELSE [found |-> TRUE, df |-> sheets[si].table]
      Resolve(source) ==
        IF source.found THEN ProcessTable(source.df, m, rcm) ELSE ReturnTable(source.df)
  IN Resolve(IF df_source.kind = "sheets"
               THEN FromSheet(IF TruthyStr(m, "sheet") THEN FindSheet(sheets, m.sheet)
                              ELSE IF Len(sheets) > 0 THEN 1 ELSE 0)
             ELSE IF df_source.kind = "table"
               THEN [found |-> TRUE, df |-> df_source.table]
             ELSE [found |-> FALSE,
                   df |-> Placeholder("Message", "Data source type not supported")])

\* lines 756-761: the guard on the source name
MissingSourceName(m) == ReturnNone

GetTableData(d, m, rcm) ==
  IF ~TruthyStr(m, "data_source") THEN MissingSourceName(m)
  ELSE LET Source(found) ==
             IF found = 0 /\ Len(d) = 0
               THEN ReturnTable(Placeholder("Message", "No data available"))
               ELSE ResolveSheet(d[IF found = 0 THEN FallbackSource(d) ELSE found], m, rcm)
       IN Source(FindSource(d, StrStrip(m.data_source)))

-----------------------------------------------------------------------------
(* Exact arithmetic for the sizes of add_table, in inches: a length is a   *)
(* fraction [n, d] in lowest terms with d > 0.                             *)

Abs(x) == IF x < 0 THEN -x ELSE x

RECURSIVE GCD(_, _)
GCD(a, b) == IF b = 0 THEN a ELSE GCD(b, a % b)

Frac(n, d) ==
  LET g == GCD(Abs(n), Abs(d))
      sign == IF d < 0 THEN -1 ELSE 1
  IN [n |-> sign * (n \div g), d |-> sign * (d \div g)]

\* over the least common denominator
FAdd(x, y) ==
  LET g == GCD(x.d, y.d)
  IN Frac(x.n * (y.d \div g) + y.n * (x.d \div g), (x.d \div g) * y.d)

FNeg(x) == [n |-> -x.n, d |-> x.d]
FSub(x, y) == FAdd(x, FNeg(y))

\* cancel across the two fractions before multiplying
FMul(x, y) ==
  LET g1 == GCD(Abs(x.n), y.d)
      g2 == GCD(Abs(y.n), x.d)
  IN Frac((x.n \div g1) * (y.n \div g2), (x.d \div g2) * (y.d \div g1))

FDiv(x, y) == FMul(x, Frac(y.d, y.n))
FInt(k) == Frac(k, 1)
FLess(x, y) == LET g == GCD(x.d, y.d) IN x.n * (y.d \div g) < y.n * (x.d \div g)
FLeq(x, y) == ~FLess(y, x)
FMax(x, y) == IF FLess(x, y) THEN y ELSE x
FMin(x, y) == IF FLess(y, x) THEN y ELSE x
FAbs(x) == Frac(Abs(x.n), x.d)

Hundredths(k) == Frac(k, 100)

-----------------------------------------------------------------------------
(* PPTBuilder.add_table: the sizing computation, lines 113-337, and the    *)
(* row heights assigned to the created table, lines 564-582.               *)

SLIDE_HEIGHT == Hundredths(750)

Unbound == 0   \* a local variable that has not been assigned yet

NoCall == [at |-> "idle"]

\* lines 192-212: base row height and header height by row-count bucket
BaseRowHeight(num_data_rows) ==
  CASE num_data_rows <= 5 -> Hundredths(50)
    [] num_data_rows > 5 /\ num_data_rows <= 10 -> Hundredths(42)
    [] num_data_rows > 10 /\ num_data_rows <= 15 -> Hundredths(35)
    [] num_data_rows > 15 /\ num_data_rows <= 20 -> Hundredths(30)
    [] num_data_rows > 20 /\ num_data_rows <= 25 -> Hundredths(26)
    [] num_data_rows > 25 /\ num_data_rows <= 30 -> Hundredths(23)
    [] OTHER -> Hundredths(20)

BaseHeaderHeight(num_data_rows) ==
  CASE num_data_rows <= 5 -> Hundredths(55)
    [] num_data_rows > 5 /\ num_data_rows <= 10 -> Hundredths(47)
    [] num_data_rows > 10 /\ num_data_rows <= 15 -> Hundredths(40)
    [] num_data_rows > 15 /\ num_data_rows <= 20 -> Hundredths(35)
    [] num_data_rows > 20 /\ num_data_rows <= 25 -> Hundredths(30)
    [] num_data_rows > 25 /\ num_data_rows <= 30 -> Hundredths(27)
    [] OTHER -> Hundredths(24)

\* lines 249-263: font sizes by row-count bucket, [data, header]
BaseFontSizes(num_data_rows) ==
  CASE num_data_rows <= 10 -> [data |-> 9, header |-> 10]
    [] num_data_rows > 10 /\ num_data_rows <= 15 -> [data |-> 8, header |-> 9]
    [] num_data_rows > 15 /\ num_data_rows <= 20 -> [data |-> 7, header |-> 8]
    [] OTHER -> [data |-> 6, header |-> 7]

IntMax(a, b) == IF a < b THEN b ELSE a

\* header_height + num_data_rows * row_height
TotalHeight(header_height, row_height, num_data_rows) ==
  FAdd(header_height, FMul(FInt(num_data_rows), row_height))

\* a factor whose margin is taken as a percentage, 92 for 0.92
ScaleFactorPercent(available, margin, needed) ==
  FDiv(FMul(available, FMul(margin, FInt(100))), needed)

\* (available * margin) / needed, the factor of one shrink pass
ScaleFactor(available, margin, needed) == FDiv(FMul(available, margin), needed)

\* one shrink pass: both heights times the factor, the total recomputed
Shrink(s, factor) ==
  LET row == FMul(s.base_row_height, factor)
      header == FMul(s.base_header_height, factor)
  IN [s EXCEPT !.base_row_height = row,
               !.base_header_height = header,
               !.calculated_height = TotalHeight(header, row, s.num_data_rows),
               !.shrink_passes = @ + 1]

\* lines 113-215: empty data becomes one "No data available" row; the height
\* available; the base heights and the height they need
Entry(data_len, top, height) ==
  LET num_data_rows == IF data_len = 0 THEN 1 ELSE data_len
      row == BaseRowHeight(num_data_rows)
      header == BaseHeaderHeight(num_data_rows)
  IN [at |-> "scale",
      top |-> top,
      height |-> height,
      num_data_rows |-> num_data_rows,
      max_available_height |-> FMin(height, FSub(FSub(SLIDE_HEIGHT, top), Hundredths(50))),
      base_row_height |-> row,
      base_header_height |-> header,
      calculated_height |-> TotalHeight(header, row, num_data_rows),
      data_font_size |-> Unbound,
      header_font_size |-> Unbound,
      table_height |-> FInt(0),
      row_height_set |-> FInt(0),
      header_height_set |-> FInt(0),
      shrink_passes |-> 0]

TooTall(s) == FLess(s.max_available_height, s.calculated_height)

\* lines 219-224: the first pass, with the 92% margin
ShrinkPass1 ==
  /\ sizing.at = "scale"
  /\ TooTall(sizing)
  /\ sizing' = [Shrink(sizing, ScaleFactor(sizing.max_available_height, Hundredths(92),
                                           sizing.calculated_height))
                  EXCEPT !.at = "rescale"]
  /\ UNCHANGED <<data, mapping, return_column_mapping, result, pc, gen, rendering, heading, styling>>

\* lines 227-242: the second pass scales the heights and then reads
\* data_font_size, which is assigned only at line 250: an unbound local
\* raises UnboundLocalError; were it bound, the font sizes would drop by one
\* and the emergency pass with the 90% margin would follow
ShrinkPass2 ==
  /\ sizing.at = "rescale"
  /\ TooTall(sizing)
  /\ LET second == Shrink(sizing, ScaleFactor(sizing.max_available_height, Hundredths(92),
                                              sizing.calculated_height))
         fonts == [second EXCEPT !.data_font_size = IntMax(6, @ - 1),
                                 !.header_font_size = IntMax(7, @ - 1)]
         third == IF TooTall(fonts)
                    THEN Shrink(fonts, ScaleFactor(fonts.max_available_height, Hundredths(90),
                                                   fonts.calculated_height))
                    ELSE fonts
     IN sizing' = IF sizing.data_font_size = Unbound
                    THEN [second EXCEPT !.at = "raised"]
                    ELSE [third EXCEPT !.at = "minimum"]
  /\ UNCHANGED <<data, mapping, return_column_mapping, result, pc, gen, rendering, heading, styling>>

\* the passes end as soon as the content fits
PassesDone ==
  /\ sizing.at \in {"scale", "rescale"}
  /\ ~TooTall(sizing)
  /\ sizing' = [sizing EXCEPT !.at = "minimum"]
  /\ UNCHANGED <<data, mapping, return_column_mapping, result, pc, gen, rendering, heading, styling>>

\* lines 244-268: minimum row heights for readability, then the font sizes
MinimumHeights ==
  /\ sizing.at = "minimum"
  /\ LET fonts == BaseFontSizes(sizing.num_data_rows)
         tight == FLess(FMul(sizing.max_available_height, Hundredths(85)),
                        sizing.calculated_height)
     IN sizing' = [sizing EXCEPT
          !.base_row_height = FMax(Hundredths(18), @),
          !.base_header_height = FMax(Hundredths(22), @),
          !.data_font_size = IF tight THEN IntMax(6, fonts.data - 1) ELSE fonts.data,
          !.header_font_size = IF tight THEN IntMax(7, fonts.header - 1) ELSE fonts.header,
          !.at = "final"]
  /\ UNCHANGED <<data, mapping, return_column_mapping, result, pc, gen, rendering, heading, styling>>

FinalHeight(s) == TotalHeight(s.base_header_height, s.base_row_height, s.num_data_rows)

\* a final pass that keeps heights exceeding the height available
FinalPassKeepsHeights ==
  /\ sizing.at = "final"
  /\ FLess(sizing.max_available_height, FinalHeight(sizing))
  /\ sizing' = [sizing EXCEPT !.table_height = FinalHeight(sizing), !.at = "slidefit"]
  /\ UNCHANGED <<data, mapping, return_column_mapping, result, pc, gen, rendering, heading, styling>>

\* lines 294-306: the heights after the minimum are scaled once more when
\* they exceed the height available
FinalShrinkPass ==
  /\ sizing.at = "final"
  /\ FLess(sizing.max_available_height, FinalHeight(sizing))
  /\ LET scaled == Shrink(sizing, ScaleFactor(sizing.max_available_height, Hundredths(92),
                                              FinalHeight(sizing)))
     IN sizing' = [scaled EXCEPT !.table_height = FinalHeight(scaled), !.at = "slidefit"]
  /\ UNCHANGED <<data, mapping, return_column_mapping, result, pc, gen, rendering, heading, styling>>

FinalAccept ==
  /\ sizing.at = "final"
  /\ ~FLess(sizing.max_available_height, FinalHeight(sizing))
  /\ sizing' = [sizing EXCEPT !.table_height = FinalHeight(sizing), !.at = "slidefit"]
  /\ UNCHANGED <<data, mapping, return_column_mapping, result, pc, gen, rendering, heading, styling>>

\* lines 308-331: the check against the bottom of the slide, with up to two
\* emergency passes when more than 0.5 in is left below top
SlideFit ==
  /\ sizing.at = "slidefit"
  /\ LET max_allowed_bottom == FSub(SLIDE_HEIGHT, Hundredths(40))
         available_from_top == FSub(max_allowed_bottom, sizing.top)
         Overflows(s) == FLess(max_allowed_bottom, FAdd(s.top, s.table_height))
         Emergency(s, margin) ==
           LET scaled == Shrink(s, ScaleFactor(available_from_top, margin, s.table_height))
           IN [scaled EXCEPT !.table_height = FinalHeight(scaled)]
         first == Emergency(sizing, Hundredths(92))
     IN sizing' =
          [(IF Overflows(sizing) /\ FLess(Hundredths(50), available_from_top)
              THEN IF Overflows(first) THEN Emergency(first, Hundredths(90)) ELSE first
              ELSE sizing)
             EXCEPT !.at = "create"]
  /\ UNCHANGED <<data, mapping, return_column_mapping, result, pc, gen, rendering, heading, styling>>

\* lines 333-582: the table shape is created with table_height; the row
\* heights are adjusted to it when they differ by more than 0.01 and assigned
CreateTable ==
  /\ sizing.at = "create"
  /\ LET total_row_height == FinalHeight(sizing)
         adjust == FLess(Hundredths(1), FAbs(FSub(total_row_height, sizing.table_height)))
         height_ratio == FDiv(sizing.table_height, total_row_height)
         row == IF adjust THEN FMul(sizing.base_row_height, height_ratio)
                ELSE sizing.base_row_height
         header == IF adjust THEN FMul(sizing.base_header_height, height_ratio)
                   ELSE sizing.base_header_height
     IN sizing' = [sizing EXCEPT !.base_row_height = row,
                                 !.base_header_height = header,
                                 !.row_height_set = row,
                                 !.header_height_set = header,
                                 !.at = "done"]
  /\ UNCHANGED <<data, mapping, return_column_mapping, result, pc, gen, rendering, heading, styling>>

-----------------------------------------------------------------------------
(* Inputs: the stores and mappings the calls are made with.                *)

SalesQ1 ==
  Table(<<"Region", "Net_Sales", "Total Qty", "Total">>,
        << <<Txt("East"), Num(100), Num(5), Num(105)>>,
           <<Txt("West"), NaN, Num(7), Num(7)>>,
           <<Txt("North"), Num(40), Num(2), Num(42)>>,
           <<Txt("TOTAL"), Num(140), Num(14), Num(154)>> >>)

SalesSummary == Table(<<"Region", "Share">>, << <<Txt("All"), Num(1)>> >>)

Stock ==
  Table(<<"Item", "Qty">>,
        << <<Txt("Bolt"), Num(3)>>, <<Txt("Nut"), Num(0)>>, <<Txt("Pin"), Num(9)>> >>)

TableEntry(key, df) == [key |-> key, kind |-> "table", table |-> df, sheets |-> <<>>]

OtherEntry(key) == [key |-> key, kind |-> "other", table |-> NoTable, sheets |-> <<>>]

SheetsEntry(key, sheets) ==
  [key |-> key, kind |-> "sheets", table |-> NoTable, sheets |-> sheets]

SalesBook ==
  SheetsEntry("Sales", <<TableEntry("Q1", SalesQ1),
                         TableEntry("Summary", SalesSummary),
                         OtherEntry("Chart1")>>)

EmptyStore == <<>>
StoreBookFirst == <<SalesBook, TableEntry("Stock", Stock)>>
StoreTableFirst == <<TableEntry("Stock", Stock), SalesBook, SheetsEntry("Void", <<>>)>>
StoreOtherFirst == <<OtherEntry("Notes"), TableEntry("Stock", Stock)>>

Stores == {EmptyStore, StoreBookFirst, StoreTableFirst, StoreOtherFirst}

\* a dict with the key absent, or present with one of the values
Optional(key, values) == {EmptyDict} \cup {key :> v : v \in values}

Mappings(sources, sheets, filters, columns, caps) ==
  {ds @@ sh @@ fl @@ cl @@ mr :
     ds \in sources, sh \in sheets, fl \in filters, cl \in columns, mr \in caps}

BoundedSeq(S, n) == UNION {[1..k -> S] : k \in 0..n}

QtyAtLeast(n) == [column |-> "Qty", operator |-> ">=", value |-> Num(n)]
NetSalesPresent == [column |-> "Net_Sales"]
UnknownColumn == [column |-> "Margin", operator |-> "==", value |-> Num(1)]

FilterLists == {<<NetSalesPresent>>, <<UnknownColumn, QtyAtLeast(3)>>}

\* source and sheet resolution: every kind of name against every store
ResolveMappings ==
  Mappings(Optional("data_source",
                    {"", "Sales", " sales", "Sto", "Budget", "Notes", "Void"}),
           Optional("sheet", {"Q1", "q1 ", "Sum", "Zed", "Chart1"}),
           Optional("filters", {<<NetSalesPresent>>}),
           Optional("columns", {<<>>, <<"Region">>, <<"Regoin">>}),
           Optional("max_rows", {1}))

\* column selection and row cap: every request of up to MaxRequested names
MaxRequested == 2
MaxRowCap == 2

RequestedNames ==
  {"Region", " REGION", "Reg", "Regoin", "net-sales", "tot", "Qty",
   "Total Qty", "total qty", "total-qty"}

SelectMappings ==
  Mappings({"data_source" :> "Sales", "data_source" :> "Stock"},
           {EmptyDict},
           Optional("filters", FilterLists),
           Optional("columns", BoundedSeq(RequestedNames, MaxRequested)),
           Optional("max_rows", 0..MaxRowCap))

-----------------------------------------------------------------------------
(* The state machine: a call is set up with its arguments and returns.     *)

InitResolve ==
  /\ data \in Stores
  /\ mapping \in ResolveMappings
  /\ return_column_mapping \in BOOLEAN
  /\ result = ReturnNone
  /\ pc = "ready"
  /\ sizing = NoCall
  /\ gen = NoCall
  /\ rendering = NoCall
  /\ heading = NoCall
  /\ styling = NoCall

InitSelect ==
  /\ data = StoreBookFirst
  /\ mapping \in SelectMappings
  /\ return_column_mapping \in BOOLEAN
  /\ result = ReturnNone
  /\ pc = "ready"
  /\ sizing = NoCall
  /\ gen = NoCall
  /\ rendering = NoCall
  /\ heading = NoCall
  /\ styling = NoCall

\* self.builder._get_table_data(data, mapping, return_column_mapping)
GetTableDataCall ==
  /\ pc = "ready"
  /\ result' = GetTableData(data, mapping, return_column_mapping)
  /\ pc' = "returned"
  /\ UNCHANGED <<data, mapping, return_column_mapping, sizing, gen, rendering, heading, styling>>

vars ==
  <<data, mapping, return_column_mapping, result, pc, sizing, gen, rendering, heading, styling>>

NextResolver == GetTableDataCall

\* the calls: any number of data rows, any box on a half-inch grid
MaxDataRows == 32
MaxTopHalves == 15
MaxHeightHalves == 12

InitAddTable ==
  /\ data = EmptyStore
  /\ mapping = EmptyDict
  /\ return_column_mapping = FALSE
  /\ result = ReturnNone
  /\ pc = "idle"
  /\ gen = NoCall
  /\ rendering = NoCall
  /\ heading = NoCall
  /\ styling = NoCall
  /\ \E data_len \in 0..MaxDataRows, t \in 0..MaxTopHalves, h \in 0..MaxHeightHalves :
       sizing = Entry(data_len, Frac(t, 2), Frac(h, 2))

NextAddTable ==
  \/ ShrinkPass1
  \/ ShrinkPass2
  \/ PassesDone
  \/ MinimumHeights
  \/ FinalShrinkPass
  \/ FinalAccept
  \/ SlideFit
  \/ CreateTable

SpecResolve == InitResolve /\ [][NextResolver]_vars

SpecSelect == InitSelect /\ [][NextResolver]_vars

SpecAddTable == InitAddTable /\ [][NextAddTable]_vars

-----------------------------------------------------------------------------
(* The deck (python-pptx): a presentation is a sequence of pages, a page   *)
(* the name of its layout and its shapes in z-order, a shape a kind, a     *)
(* name and the text of its runs (for a chart: the category column as its  *)
(* name and the series columns as its runs; for a table: its header row).  *)

Shape(kind, name, runs) == [kind |-> kind, name |-> name, runs |-> runs]

Page(layout, shapes) == [layout |-> layout, shapes |-> shapes]

\* the shapes with a text frame
HasTextFrame(shape) == shape.kind \in {"placeholder", "textbox"}

\* text_frame.text: the runs of the shape, joined
RECURSIVE FrameText(_)
FrameText(runs) == IF runs = <<>> THEN "" ELSE Head(runs) \o FrameText(Tail(runs))

\* presentation.slide_layouts: the layouts a page can be added with
TitleSlideLayout ==
  [name |-> "Title Slide",
   shapes |-> <<Shape("placeholder", "Title 1", <<>>),
                Shape("placeholder", "Subtitle 2", <<>>)>>]

BlankLayout == [name |-> "Blank", shapes |-> <<>>]

SlideLayouts == <<TitleSlideLayout, BlankLayout>>

\* slides.add_slide(layout): a page with the layout's placeholders, empty
NewSlide(layout) == Page(layout.name, layout.shapes)

\* PPTBuilder.add_text_box up to text_frame.text = text: the shape is on the
\* page before any formatting is applied to it
TextBox(text) == Shape("textbox", "TextBox", <<text>>)

HexDigits ==
  {"0", "1", "2", "3", "4", "5", "6", "7", "8", "9",
   "a", "b", "c", "d", "e", "f", "A", "B", "C", "D", "E", "F"}

\* int(s, 16) does not raise
IsHex(s) == Len(s) > 0 /\ \A i \in 1..Len(s) : Ch(s, i) \in HexDigits

Slice(s, from, to) ==
  SubSeq(s, from + 1, IF to < Len(s) THEN to ELSE Len(s))

\* the "#RRGGBB" parsing every run formatting applies to font_color:
\* FALSE when int(..., 16) raises ValueError
ParsesAsColor(font_color) ==
  LET color_str == IF Len(font_color) > 0 /\ Ch(font_color, 1) = "#"
                     THEN SubSeq(font_color, 2, Len(font_color))
                     ELSE font_color
  IN /\ IsHex(Slice(color_str, 0, 2))
     /\ IsHex(Slice(color_str, 2, 4))
     /\ IsHex(Slice(color_str, 4, 6))

\* PPTGenerator._clean_text
CleanText(text) ==
  IF StrLower(text) \in {"nan", "none", "nat"} THEN "" ELSE StrStrip(text)

\* {**default_formatting, **formatting}["font_color"]
MergedFontColor(default_color, formatting) ==
  IF Has(formatting, "font_color") THEN formatting.font_color ELSE default_color

\* a title test that a shape named as a subtitle does not pass
FirstTitleShapeNotSubtitle(shapes) ==
  FirstTrue([i \in 1..Len(shapes) |->
               /\ HasTextFrame(shapes[i])
               /\ ~StrIn("subtitle", StrLower(shapes[i].name))
               /\ \/ StrIn("title", StrLower(shapes[i].name))
                  \/ shapes[i].name = ""])

\* the first shape with a text frame whose name passes the title test
\* ("title" in shape_name or shape_name == ""), 0 when there is none
FirstTitleShape(shapes) ==
  FirstTrue([i \in 1..Len(shapes) |->
               /\ HasTextFrame(shapes[i])
               /\ \/ StrIn("title", StrLower(shapes[i].name))
                  \/ shapes[i].name = ""])

FirstSubtitleShape(shapes) ==
  FirstTrue([i \in 1..Len(shapes) |->
               /\ HasTextFrame(shapes[i])
               /\ StrIn("subtitle", StrLower(shapes[i].name))])

\* the outcome of a step that may raise: the shapes it left on the page
Done(shapes) == [shapes |-> shapes, ok |-> TRUE]
Raised(shapes) == [shapes |-> shapes, ok |-> FALSE]

\* title and subtitle of a content or table page: placeholders first, then
\* text boxes for what no placeholder took; a font colour that does not
\* parse raises after the text was set or the box was added
Headings(shapes, slide_config) ==
  LET title == CleanText(slide_config.title)
      subtitle == CleanText(slide_config.subtitle)
      title_color == MergedFontColor("#004E6F", slide_config.title_formatting)
      subtitle_color == MergedFontColor("#009CDE", slide_config.subtitle_formatting)
      ti == IF title # "" THEN FirstTitleShape(shapes) ELSE 0
      s1 == IF ti # 0 THEN [shapes EXCEPT ![ti].runs = <<title>>] ELSE shapes
      si == IF subtitle # "" THEN FirstSubtitleShape(s1) ELSE 0
      s2 == IF si # 0 THEN [s1 EXCEPT ![si].runs = <<subtitle>>] ELSE s1
      title_box == ti = 0 /\ title # ""
      s3 == IF title_box THEN Append(s2, TextBox(title)) ELSE s2
      subtitle_box == subtitle # "" /\ si = 0
      s4 == IF subtitle_box THEN Append(s3, TextBox(subtitle)) ELSE s3
  IN IF ti # 0 /\ ~ParsesAsColor(title_color) THEN Raised(s1)
     ELSE IF si # 0 /\ ~ParsesAsColor(subtitle_color) THEN Raised(s2)
     ELSE IF title_box /\ ~ParsesAsColor(title_color) THEN Raised(s3)
     ELSE IF subtitle_box /\ ~ParsesAsColor(subtitle_color) THEN Raised(s4)
     ELSE Done(s4)

\* the columns of a table as a set
Columns(df) == {df.cols[i] : i \in 1..Len(df.cols)}

\* the first column equal to the name after strip and lower-casing, "" if none
DirectMatch(name, cols, excluded) ==
  FirstName(cols, [i \in 1..Len(cols) |->
                     /\ StrLower(StrStrip(cols[i])) = StrLower(StrStrip(name))
                     /\ cols[i] \notin excluded])

\* a bare DataFrame came back: requested names paired with columns by position
PositionalMapping(requested_columns, actual_columns) ==
  [name \in {requested_columns[i] :
               i \in {j \in 1..Len(requested_columns) : j <= Len(actual_columns)}} |->
     actual_columns[CHOOSE i \in 1..Len(requested_columns) :
                      /\ requested_columns[i] = name
                      /\ i <= Len(actual_columns)
                      /\ \A j \in 1..Len(requested_columns) :
                           (requested_columns[j] = name /\ j <= Len(actual_columns))
                             => j <= i]]

\* column_mapping.get(name), "" for None
MappedColumn(column_mapping, name) ==
  IF Has(column_mapping, name) THEN column_mapping[name] ELSE ""

\* the loop over y_columns: each resolved column that is not the X column
\* and not yet in the list is appended
RECURSIVE ActualYColumns(_, _, _, _, _)
ActualYColumns(y_cols_list, column_mapping, cols, actual_x_column, acc) ==
  IF y_cols_list = <<>> THEN acc
  ELSE LET mapped == MappedColumn(column_mapping, Head(y_cols_list))
           actual_y == IF mapped # "" THEN mapped
                       ELSE DirectMatch(Head(y_cols_list), cols, {actual_x_column})
           keep == actual_y # "" /\ actual_y # actual_x_column /\ ~InSeq(actual_y, acc)
       IN ActualYColumns(Tail(y_cols_list), column_mapping, cols, actual_x_column,
                         IF keep THEN Append(acc, actual_y) ELSE acc)

\* [col for col in chart_data.columns if col != actual_x_column]
RECURSIVE AllExcept(_, _)
AllExcept(cols, x) ==
  IF cols = <<>> THEN <<>>
  ELSE (IF Head(cols) = x THEN <<>> ELSE <<Head(cols)>>) \o AllExcept(Tail(cols), x)

\* PPTBuilder.add_chart: the chart shape, its category column and its series
ChartShape(x_column, y_columns) == Shape("chart", x_column, AllExcept(y_columns, x_column))

NoChart == Shape("none", "", <<>>)

\* the chart of a page, from chart_config.get("x_column") to add_chart: the
\* chart shape, or NoChart when the attempt fails; add_chart_raises is an
\* exception of the chart primitive before the shape is on the page (every
\* earlier failure gives NoChart as well, so it is tested first)
ChartAttempt(d, chart_config, chart_data_source, chart_sheet, add_chart_raises) ==
  LET x_column == IF Has(chart_config, "x_column") THEN chart_config.x_column ELSE ""
      y_columns == IF Has(chart_config, "y_columns") THEN chart_config.y_columns ELSE <<>>
      chart_mapping == ("data_source" :> chart_data_source) @@ ("sheet" :> chart_sheet)
                         @@ ("columns" :> (<<x_column>> \o y_columns))
      ColumnMapping(returned) ==
        IF returned.kind = "pair" THEN returned.column_mapping
        ELSE PositionalMapping(<<x_column>> \o y_columns, returned.table.cols)
      ActualXColumn(chart_data, mapped_x, direct_x) ==
        IF mapped_x # "" THEN mapped_x
        ELSE IF direct_x # "" THEN direct_x
        ELSE chart_data.cols[1]
      ActualY(chart_data, actual_x_column, matched_y) ==
        IF matched_y # <<>> THEN matched_y
        ELSE AllExcept(chart_data.cols, actual_x_column)
      Plot(actual_x_column, actual_y_columns) ==
        IF actual_x_column = "" \/ actual_y_columns = <<>> THEN NoChart
        ELSE ChartShape(actual_x_column, actual_y_columns)
      PlotY(chart_data, column_mapping, actual_x_column) ==
        Plot(actual_x_column,
             ActualY(chart_data, actual_x_column,
                     ActualYColumns(y_columns, column_mapping, chart_data.cols,
                                    actual_x_column, <<>>)))
      PlotXY(chart_data, column_mapping) ==
        PlotY(chart_data, column_mapping,
              ActualXColumn(chart_data, MappedColumn(column_mapping, x_column),
                            DirectMatch(x_column, chart_data.cols, {})))
      FromData(returned) ==
        IF returned.kind = "none" THEN NoChart
        ELSE IF Len(returned.table.rows) = 0 \/ Len(returned.table.cols) = 0 THEN NoChart
        ELSE PlotXY(returned.table, ColumnMapping(returned))
  IN IF add_chart_raises THEN NoChart
     ELSE IF x_column = "" \/ y_columns = <<>> THEN NoChart
     ELSE FromData(GetTableData(d, chart_mapping, TRUE))

\* chart_config and chart_config.get("enabled", False)
ChartEnabled(slide_config) ==
  Has(slide_config.chart, "enabled") /\ slide_config.chart.enabled

\* dict.get(key) or "", also when the dict is empty
StrOr(m, k) == IF Has(m, k) THEN m[k] ELSE ""

\* PPTBuilder.add_table, lines 419-424: header_formatting is the dict of the
\* formatting passed in, and its font_color is assigned in place
AddTableFormatting(formatting) ==
  IF /\ Has(formatting, "header_formatting")
     /\ Has(formatting.header_formatting, "fill_color")
    THEN [formatting EXCEPT !.header_formatting = ("font_color" :> "#FFFFFF") @@ @]
    ELSE formatting

\* what add_table(formatting=table_mapping.get("formatting")) leaves in the
\* table mapping of the page configuration
TableMappingAfterAddTable(table_mapping) ==
  IF Has(table_mapping, "formatting")
    THEN [table_mapping EXCEPT !.formatting = AddTableFormatting(@)]
    ELSE table_mapping

TableShape(df) == Shape("table", "Table", df.cols)

\* pd.DataFrame({col: ["No data available"] for col in columns})
RECURSIVE Distinct(_, _)
Distinct(names, acc) ==
  IF names = <<>> THEN acc
  ELSE Distinct(Tail(names), IF InSeq(Head(names), acc) THEN acc ELSE Append(acc, Head(names)))

EmptyStateTable(table_mapping) ==
  LET columns == IF Has(table_mapping, "columns") THEN table_mapping.columns ELSE <<>>
      cols == IF Len(columns) > 0 THEN Distinct(columns, <<>>) ELSE <<"Data">>
  IN Table(cols, << [i \in 1..Len(cols) |-> Txt("No data available")] >>)

\* str(df[column].iloc[0])
CellStr(c) == c.txt

\* PPTBuilder._get_text_value: the first value of the column of a top-level
\* DataFrame, else the default value ("" for None)
TextValue(d, shape_mapping) ==
  LET hits == [i \in 1..Len(d) |->
                 /\ Has(shape_mapping, "data_source")
                 /\ d[i].key = shape_mapping.data_source]
      at == FirstTrue(hits)
  IN IF /\ at # 0
        /\ d[at].kind = "table"
        /\ Has(shape_mapping, "column")
        /\ InSeq(shape_mapping.column, d[at].table.cols)
        /\ Len(d[at].table.rows) > 0
       THEN CellStr(d[at].table.rows[1][ColIndex(d[at].table.cols, shape_mapping.column)])
       ELSE StrOr(shape_mapping, "default_value")

\* PPTBuilder.populate_slide_from_mapping for text mappings: the text of the
\* shape at shape_index (from 0) is replaced when that shape has a text frame
RECURSIVE PopulateSlideFromMapping(_, _, _)
PopulateSlideFromMapping(shapes, d, shape_mappings) ==
  IF shape_mappings = <<>> THEN shapes
  ELSE LET shape_mapping == Head(shape_mappings)
           at == shape_mapping.shape_index + 1
           text_value == TextValue(d, shape_mapping)
           updated == IF /\ shape_mapping.mapping_type = "text"
                         /\ text_value # ""
                         /\ at <= Len(shapes)
                         /\ HasTextFrame(shapes[at])
                        THEN [shapes EXCEPT ![at].runs = <<text_value>>]
                        ELSE shapes
       IN PopulateSlideFromMapping(updated, d, Tail(shape_mappings))

\* the outcome of populating a page: its shapes, whether the step returned,
\* and the page configuration as the step left it
Populated(outcome, slide_config) ==
  [shapes |-> outcome.shapes, ok |-> outcome.ok, slide_config |-> slide_config]

\* a chart-enabled content page that goes on to its content mappings
GenerateContentSlideBoth(shapes, slide_config, d, add_chart_raises) ==
  LET Charted(headed, chart) ==
        IF ChartEnabled(slide_config) /\ chart # NoChart
          THEN Append(headed.shapes, chart) ELSE headed.shapes
      AfterHeadings(headed) ==
        IF ~headed.ok THEN Populated(headed, slide_config)
        ELSE Populated(
               Done(PopulateSlideFromMapping(
                      Charted(headed,
                              ChartAttempt(d, slide_config.chart,
                                           StrOr(slide_config.chart, "data_source"),
                                           StrOr(slide_config.chart, "sheet"),
                                           add_chart_raises)),
                      d, slide_config.content_mappings)),
               slide_config)
  IN AfterHeadings(Headings(shapes, slide_config))

\* PPTGenerator._generate_content_slide
GenerateContentSlide(shapes, slide_config, d, add_chart_raises) ==
  LET title == CleanText(slide_config.title)
      subtitle == CleanText(slide_config.subtitle)
      \* lines 621-758: the chart, and nothing in its place when it fails
      WithChart(headed, chart) ==
        Populated(Done(IF chart = NoChart THEN headed.shapes
                       ELSE Append(headed.shapes, chart)), slide_config)
      AfterHeadings(headed) ==
        IF ~headed.ok THEN Populated(headed, slide_config)
        ELSE IF ChartEnabled(slide_config)
          THEN WithChart(headed,
                         ChartAttempt(d, slide_config.chart,
                                      StrOr(slide_config.chart, "data_source"),
                                      StrOr(slide_config.chart, "sheet"),
                                      add_chart_raises))
        ELSE IF slide_config.content_mappings # <<>>
          THEN Populated(Done(PopulateSlideFromMapping(headed.shapes, d,
                                                       slide_config.content_mappings)),
                         slide_config)
        ELSE IF title = "" /\ subtitle = ""
          THEN Populated(Done(Append(headed.shapes,
                                     TextBox("No content configured for this slide"))),
                         slide_config)
        ELSE Populated(headed, slide_config)
  IN AfterHeadings(Headings(shapes, slide_config))

\* PPTGenerator._generate_table_slide
GenerateTableSlide(shapes, slide_config, d, add_chart_raises) ==
  LET table_mapping == slide_config.table_mapping
      chart_data_source == IF StrOr(slide_config.chart, "data_source") # ""
                             THEN slide_config.chart.data_source
                             ELSE StrOr(table_mapping, "data_source")
      chart_sheet == IF StrOr(slide_config.chart, "sheet") # ""
                       THEN slide_config.chart.sheet
                       ELSE StrOr(table_mapping, "sheet")
      after_add_table ==
        [slide_config EXCEPT !.table_mapping = TableMappingAfterAddTable(@)]
      \* lines 914-1063: the chart, or the message in its place
      WithChart(headed, chart) ==
        Populated(Done(Append(headed.shapes,
                              IF chart = NoChart THEN TextBox("Chart data unavailable")
                              ELSE chart)),
                  slide_config)
      \* lines 1065-1236: the table, or the empty-state table
      WithTable(headed, returned) ==
        IF returned.kind # "none" /\ Len(returned.table.rows) > 0
          THEN IF FirstTrue([i \in 1..Len(headed.shapes) |->
                               headed.shapes[i].kind = "table"]) # 0
                 THEN Populated(headed, slide_config)
                 ELSE Populated(Done(Append(headed.shapes, TableShape(returned.table))),
                                after_add_table)
        ELSE Populated(Done(Append(headed.shapes,
                                   TableShape(EmptyStateTable(table_mapping)))),
                       after_add_table)
      AfterHeadings(headed) ==
        IF ~headed.ok THEN Populated(headed, slide_config)
        ELSE IF ChartEnabled(slide_config)
          THEN WithChart(headed,
                         ChartAttempt(d, slide_config.chart, chart_data_source,
                                      chart_sheet, add_chart_raises))
        ELSE WithTable(headed,
                       IF TruthyStr(table_mapping, "data_source")
                         THEN GetTableData(d, table_mapping, FALSE)
                         ELSE ReturnNone)
  IN AfterHeadings(Headings(shapes, slide_config))

\* lines 444-480: the one loop of _generate_title_slide over the shapes from
\* index i on; every shape that passes the title test gets the title, a
\* shape that fails it and has "subtitle" in its name gets the subtitle
RECURSIVE TitleSlideLoop(_, _, _, _, _, _)
TitleSlideLoop(shapes, i, slide_config, title_found, subtitle_found, written) ==
  IF i > Len(shapes)
    THEN [shapes |-> shapes, ok |-> TRUE, title_found |-> title_found,
          subtitle_found |-> subtitle_found, written |-> written]
  ELSE LET shape_name == StrLower(shapes[i].name)
           title_color == MergedFontColor("#003B55", slide_config.title_formatting)
           subtitle_color == MergedFontColor("#666666", slide_config.subtitle_formatting)
           titled == [shapes EXCEPT ![i].runs =
                        IF slide_config.title = "" THEN <<>> ELSE <<slide_config.title>>]
           subtitled == [shapes EXCEPT ![i].runs =
                           IF slide_config.subtitle = "" THEN <<>>
                           ELSE <<slide_config.subtitle>>]
           title_written == Append(written, [what |-> "title", index |-> i])
           subtitle_written == Append(written, [what |-> "subtitle", index |-> i])
       IN IF ~HasTextFrame(shapes[i])
            THEN TitleSlideLoop(shapes, i + 1, slide_config, title_found, subtitle_found,
                                written)
          ELSE IF StrIn("title", shape_name) \/ (shape_name = "" /\ ~title_found)
            THEN IF slide_config.title # "" /\ ~ParsesAsColor(title_color)
                   THEN [shapes |-> titled, ok |-> FALSE, title_found |-> title_found,
                         subtitle_found |-> subtitle_found, written |-> title_written]
                   ELSE TitleSlideLoop(titled, i + 1, slide_config, TRUE, subtitle_found,
                                       title_written)
          ELSE IF StrIn("subtitle", shape_name)
            THEN IF slide_config.subtitle # "" /\ ~ParsesAsColor(subtitle_color)
                   THEN [shapes |-> subtitled, ok |-> FALSE, title_found |-> title_found,
                         subtitle_found |-> subtitle_found, written |-> subtitle_written]
                   ELSE TitleSlideLoop(subtitled, i + 1, slide_config, title_found, TRUE,
                                       subtitle_written)
          ELSE TitleSlideLoop(shapes, i + 1, slide_config, title_found, subtitle_found,
                              written)

\* lines 482-494: text boxes for the title and the subtitle that the loop
\* did not place
TitleSlideBoxes(looped, slide_config) ==
  LET title_color == MergedFontColor("#003B55", slide_config.title_formatting)
      subtitle_color == MergedFontColor("#666666", slide_config.subtitle_formatting)
      title_box == ~looped.title_found /\ slide_config.title # ""
      subtitle_box == ~looped.subtitle_found /\ slide_config.subtitle # ""
      s1 == IF title_box THEN Append(looped.shapes, TextBox(slide_config.title))
            ELSE looped.shapes
      s2 == IF subtitle_box THEN Append(s1, TextBox(slide_config.subtitle)) ELSE s1
  IN IF ~looped.ok THEN Raised(looped.shapes)
     ELSE IF title_box /\ ~ParsesAsColor(title_color) THEN Raised(s1)
     ELSE IF subtitle_box /\ ~ParsesAsColor(subtitle_color) THEN Raised(s2)
     ELSE Done(s2)

\* PPTGenerator._generate_title_slide, without title_data_source
GenerateTitleSlide(shapes, slide_config) ==
  Populated(TitleSlideBoxes(TitleSlideLoop(shapes, 1, slide_config, FALSE, FALSE, <<>>),
                            slide_config),
            slide_config)

\* PPTGenerator._generate_generic_slide with no "mappings" key
GenerateGenericSlide(shapes, slide_config) == Populated(Done(shapes), slide_config)

\* lines 353-364: the page is populated according to its slide_type
PopulateSlide(shapes, slide_config, d, add_chart_raises) ==
  IF slide_config.slide_type = "title"
    THEN GenerateTitleSlide(shapes, slide_config)
  ELSE IF slide_config.slide_type = "content"
    THEN GenerateContentSlide(shapes, slide_config, d, add_chart_raises)
  ELSE IF slide_config.slide_type = "table"
    THEN GenerateTableSlide(shapes, slide_config, d, add_chart_raises)
  ELSE GenerateGenericSlide(shapes, slide_config)

\* lines 329-336: the layout named by the page configuration, 0 for None
FindLayout(template_path, slide_config) ==
  IF template_path # "" /\ slide_config.layout_name # ""
    THEN FirstTrue([i \in 1..Len(SlideLayouts) |->
                      SlideLayouts[i].name = slide_config.layout_name])
    ELSE 0

\* PPTBuilder.add_slide: the layout given, else slide_layouts[0]
AddSlide(layout) == NewSlide(SlideLayouts[IF layout = 0 THEN 1 ELSE layout])

\* lines 368-400: the fallback content, added to the page of the failed attempt
FallbackContent(shapes, slide_config) ==
  LET titled == IF slide_config.title # ""
                  THEN Append(shapes, TextBox(slide_config.title))
                  ELSE shapes
  IN Append(titled, TextBox("Content unavailable - please check data configuration"))

\* the faults of the environment during one page: none, add_slide raises once
\* (the fallback's add_slide succeeds), add_slide raises both times, or the
\* chart primitive raises
SlideFaults == {"none", "add_slide", "add_slide_twice", "add_chart"}

\* PPTGenerator._generate_slide: the pages of the presentation and the page
\* configuration after the call, and whether the populate step raised
GenerateSlideOutcome(slides, template_path, slide_config, d, fault) ==
  LET Finish(slide, populated) ==
        IF populated.ok
          THEN [slides |-> Append(slides, Page(slide.layout, populated.shapes)),
                slide_config |-> populated.slide_config, raised |-> FALSE]
        ELSE [slides |-> Append(slides,
                           Page(slide.layout,
                                FallbackContent(populated.shapes, slide_config))),
              slide_config |-> populated.slide_config, raised |-> TRUE]
      Populate(slide) ==
        Finish(slide, PopulateSlide(slide.shapes, slide_config, d, fault = "add_chart"))
  IN IF fault = "add_slide_twice"
       THEN [slides |-> slides, slide_config |-> slide_config, raised |-> TRUE]
     ELSE IF fault = "add_slide"
       THEN [slides |-> Append(slides,
                          Page(AddSlide(0).layout,
                               FallbackContent(AddSlide(0).shapes, slide_config))),
             slide_config |-> slide_config, raised |-> TRUE]
     ELSE Populate(AddSlide(FindLayout(template_path, slide_config)))

-----------------------------------------------------------------------------
(* PPTGenerator: construction from a template file, and generate.          *)

\* str.replace(old, new): every non-overlapping occurrence, left to right
RECURSIVE StrReplace(_, _, _)
StrReplace(s, old, new) ==
  IF Len(s) < Len(old) THEN s
  ELSE IF SubSeq(s, 1, Len(old)) = old
    THEN new \o StrReplace(SubSeq(s, Len(old) + 1, Len(s)), old, new)
  ELSE Ch(s, 1) \o StrReplace(SubSeq(s, 2, Len(s)), old, new)

\* run.text = run.text.replace("AIL", affiliate), for every run of a shape
ReplaceInRuns(runs, affiliate) ==
  [i \in 1..Len(runs) |-> StrReplace(runs[i], "AIL", affiliate)]

\* PPTGenerator._replace_affiliate_in_title_slide: every shape of the first
\* page that has a text frame
ReplaceAffiliateInTitleSlide(slides, affiliate) ==
  IF Len(slides) = 0 THEN slides
  ELSE [slides EXCEPT ![1].shapes =
          [i \in 1..Len(@) |->
             IF HasTextFrame(@[i])
               THEN [@[i] EXCEPT !.runs = ReplaceInRuns(@, affiliate)]
               ELSE @[i]]]

\* lines 150-160: a page with the closer's layout, and the text of each
\* template shape copied to the shape at the same index
CloneEndSlide(template_end_slide) ==
  LET layout == FirstTrue([i \in 1..Len(SlideLayouts) |->
                             SlideLayouts[i].name = template_end_slide.layout])
      end_slide_new == AddSlide(layout)
  IN Page(end_slide_new.layout,
          [i \in 1..Len(end_slide_new.shapes) |->
             IF /\ i <= Len(template_end_slide.shapes)
                /\ HasTextFrame(template_end_slide.shapes[i])
                /\ FrameText(template_end_slide.shapes[i].runs) # ""
                /\ HasTextFrame(end_slide_new.shapes[i])
               THEN [end_slide_new.shapes[i] EXCEPT
                       !.runs = <<FrameText(template_end_slide.shapes[i].runs)>>]
               ELSE end_slide_new.shapes[i]])

\* lines 165-167: a page with the layout of the closer and nothing copied
BlankEndSlide(end_slide_layout) ==
  AddSlide(FirstTrue([i \in 1..Len(SlideLayouts) |->
                        SlideLayouts[i].name = end_slide_layout]))

\* the faults of the environment while the closer is added again: none; the
\* template file is gone; an exception before the page is added (the reload
\* or add_slide); an exception after it (copying text); the fallback's
\* add_slide raising too
CloserFaults == {"none", "missing", "before_add", "after_add", "fallback"}

\* lines 144-170: the pages after the closer step
ReAddEndSlideOutcome(slides, template, end_slide_layout, fault) ==
  LET template_end_slide == template.slides[Len(template.slides)]
  IN IF template.state # "ok" THEN slides
     ELSE IF Len(template.slides) < 2
       \* line 148: no page is added for a template without a closer, unless
       \* the reload raises and the fallback adds one
       THEN IF fault \in {"before_add", "after_add"}
              THEN Append(slides, BlankEndSlide(end_slide_layout)) ELSE slides
     ELSE
     CASE fault = "none" -> Append(slides, CloneEndSlide(template_end_slide))
       [] fault = "missing" -> slides
       [] fault = "before_add" -> Append(slides, BlankEndSlide(end_slide_layout))
       [] fault = "after_add" ->
            Append(Append(slides, BlankEndSlide(template_end_slide.layout)),
                   BlankEndSlide(end_slide_layout))
       [] fault = "fallback" -> slides

\* a loop that stops at the first page that raises
AfterSlideAbort(raised) == IF raised THEN "raised" ELSE "slides"

\* what the loop of generate does after a page: it goes on to the next page
\* whether or not the page raised (lines 137-142 and 368-400)
AfterSlide(raised) == "slides"

\* the generator before __init__ runs: its arguments and the template file
NewGenerator(template_path, template, affiliate, slides_mapping) ==
  [at |-> "new",
   template_path |-> template_path,
   template |-> template,
   affiliate |-> affiliate,
   slides_mapping |-> slides_mapping,
   loaded_mapping |-> slides_mapping,
   slides |-> <<>>,
   preserve_template |-> FALSE,
   end_slide_layout |-> "",
   idx |-> 0,
   raised_pages |-> {},
   attempted |-> <<>>,
   page_of |-> <<>>,
   faulted |-> FALSE,
   saved |-> FALSE,
   output |-> <<>>,
   error |-> "",
   run |-> "first",
   first_output |-> <<>>]

\* PPTGenerator.__init__, lines 51-55: the template when the path is given
\* and the file exists, else a blank presentation; a file that does not load
\* raises
Construct ==
  /\ gen.at = "new"
  /\ gen' = IF gen.template_path # "" /\ gen.template.state = "corrupt"
              THEN [gen EXCEPT !.at = "raised", !.error = "template"]
            ELSE IF gen.template_path # "" /\ gen.template.state = "ok"
              THEN [gen EXCEPT !.at = "constructed", !.slides = gen.template.slides]
            ELSE [gen EXCEPT !.at = "constructed", !.slides = <<>>]
  /\ UNCHANGED <<data, mapping, return_column_mapping, result, pc, sizing, rendering, heading, styling>>

\* generate, lines 93-128 and 172-179: the cover is kept when the template
\* has two pages or more, and every other page is dropped
GenerateBegin ==
  /\ gen.at = "constructed"
  /\ LET preserve_template == Len(gen.slides) >= 2
         replaced == IF gen.affiliate # ""
                       THEN ReplaceAffiliateInTitleSlide(gen.slides, gen.affiliate)
                       ELSE gen.slides
     IN gen' = IF preserve_template
                 THEN [gen EXCEPT !.at = "slides", !.idx = 1,
                                  !.preserve_template = TRUE,
                                  !.end_slide_layout = gen.slides[Len(gen.slides)].layout,
                                  !.slides = <<replaced[1]>>]
                 ELSE [gen EXCEPT !.at = "slides", !.idx = 1, !.slides = <<>>]
  /\ UNCHANGED <<data, mapping, return_column_mapping, result, pc, sizing, rendering, heading, styling>>

\* at most one fault of the environment is injected in a run; the failures
\* that the page configurations cause themselves are not limited
FaultAllowed(fault) == fault = "none" \/ ~gen.faulted

\* generate, lines 132-142 (and 183-193): one pass of the loop, with
\* _generate_slide for the page configuration at idx
GenerateSlide ==
  /\ gen.at = "slides"
  /\ gen.idx <= Len(gen.slides_mapping)
  /\ \E fault \in SlideFaults :
       /\ FaultAllowed(fault)
       /\ \E outcome \in {GenerateSlideOutcome(gen.slides, gen.template_path,
                                                gen.slides_mapping[gen.idx], data, fault)} :
            gen' = [gen EXCEPT
                         !.at = AfterSlide(outcome.raised),
                         !.slides = outcome.slides,
                         !.slides_mapping[gen.idx] = outcome.slide_config,
                         !.attempted = Append(@, gen.idx),
                         !.raised_pages = IF outcome.raised THEN @ \cup {gen.idx} ELSE @,
                         !.page_of = Append(@, IF Len(outcome.slides) > Len(gen.slides)
                                                 THEN Len(outcome.slides) ELSE 0),
                         !.faulted = @ \/ fault # "none",
                       !.idx = @ + 1]
  /\ UNCHANGED <<data, mapping, return_column_mapping, result, pc, sizing, rendering, heading, styling>>

\* generate, lines 144-170: the closer is added again after the last page
ReAddEndSlide ==
  /\ gen.at = "slides"
  /\ gen.idx > Len(gen.slides_mapping)
  /\ gen.preserve_template
  /\ \E fault \in CloserFaults :
       /\ FaultAllowed(fault)
       /\ gen' = [gen EXCEPT
                    !.at = "save",
                    !.slides = ReAddEndSlideOutcome(gen.slides, gen.template,
                                                    gen.end_slide_layout, fault),
                    !.faulted = @ \/ fault # "none"]
  /\ UNCHANGED <<data, mapping, return_column_mapping, result, pc, sizing, rendering, heading, styling>>

\* generate, lines 195-202: presentation.save(output_path); an output path
\* that cannot be written raises to the caller
Save ==
  /\ \/ gen.at = "save"
     \/ gen.at = "slides" /\ gen.idx > Len(gen.slides_mapping) /\ ~gen.preserve_template
  /\ \E writable \in BOOLEAN :
       gen' = IF writable
                THEN [gen EXCEPT !.at = "done", !.saved = TRUE, !.output = gen.slides]
                ELSE [gen EXCEPT !.at = "raised", !.error = "save"]
  /\ UNCHANGED <<data, mapping, return_column_mapping, result, pc, sizing, rendering, heading, styling>>

\* generate is called again on the same object, with the same data: the
\* presentation it starts from is the one the first call left (self.presentation
\* is loaded in __init__ only), and the page configurations are the ones the
\* first call left in self.slides_mapping
GenerateAgain ==
  /\ gen.at = "done"
  /\ gen.run = "first"
  /\ gen' = [gen EXCEPT !.at = "constructed",
                        !.run = "second",
                        !.first_output = gen.output,
                        !.preserve_template = FALSE,
                        !.end_slide_layout = "",
                        !.idx = 0,
                        !.raised_pages = {},
                        !.attempted = <<>>,
                        !.page_of = <<>>,
                        !.saved = FALSE]
  /\ UNCHANGED <<data, mapping, return_column_mapping, result, pc, sizing, rendering, heading, styling>>

-----------------------------------------------------------------------------
(* Inputs of the generator: page configurations, template files.           *)

SlideConfig(slide_type, title, subtitle, layout_name, title_formatting, chart, table_mapping, content_mappings) ==
  [slide_type |-> slide_type, title |-> title, subtitle |-> subtitle,
   layout_name |-> layout_name, title_formatting |-> title_formatting,
   subtitle_formatting |-> EmptyDict, chart |-> chart,
   table_mapping |-> table_mapping, content_mappings |-> content_mappings]

\* a text mapping that reads the store, and one that only has a default
ItemText == [shape_index |-> 1, mapping_type |-> "text",
             data_source |-> "Stock", column |-> "Item"]
BodyText == [shape_index |-> 0, mapping_type |-> "text", default_value |-> "Body"]

ContentPlain ==
  SlideConfig("content", "Overview", "", "Title Slide", EmptyDict, EmptyDict,
              EmptyDict, <<ItemText>>)

\* a chart whose columns all resolve
ContentChart ==
  SlideConfig("content", "Sales", "", "Blank", EmptyDict,
              [enabled |-> TRUE, x_column |-> "Region", y_columns |-> <<"Net_Sales">>,
               data_source |-> "Sales"],
              EmptyDict, <<BodyText>>)

\* a chart without x_column
ContentChartNoAxis ==
  SlideConfig("content", "Trend", "", "Title Slide", EmptyDict,
              [enabled |-> TRUE, y_columns |-> <<"Total">>, data_source |-> "Sales"],
              EmptyDict, <<BodyText>>)

\* a chart whose x_column is in no column of the data, by any strategy
TableChartNoMonth ==
  SlideConfig("table", "By month", "", "Blank", EmptyDict,
              [enabled |-> TRUE, x_column |-> "Month",
               y_columns |-> <<"Net_Sales", "Total">>],
              [data_source |-> "Sales"], <<>>)

\* a chart whose only resolved column is its x_column
TableChartNoSeries ==
  SlideConfig("table", "Regions", "", "Title Slide", EmptyDict,
              [enabled |-> TRUE, x_column |-> "Region", y_columns |-> <<"Zzz">>],
              [data_source |-> "Sales"], <<>>)

\* a table with header formatting, its chart switched off
TablePlain ==
  SlideConfig("table", "Stock", "Levels", "Title Slide", EmptyDict,
              [enabled |-> FALSE, x_column |-> "Item", y_columns |-> <<"Qty">>],
              [data_source |-> "Stock",
               formatting |-> [header_formatting |->
                                 [fill_color |-> "#004E6F", font_color |-> "#000000"],
                               data_formatting |-> [font_color |-> "#000000"]]],
              <<>>)

\* a title colour that is not "#RRGGBB"
TableBadColor ==
  SlideConfig("table", "Stock", "", "Blank", [font_color |-> "red"], EmptyDict,
              [data_source |-> "Stock"], <<>>)

SlideConfigs ==
  {ContentPlain, ContentChart, ContentChartNoAxis, TableChartNoMonth,
   TableChartNoSeries, TablePlain, TableBadColor}

\* the pages of a template file
Cover ==
  Page("Title Slide",
       <<Shape("placeholder", "Title 1", <<"AIL", " Monthly ", "DETAILS">>),
         Shape("placeholder", "Subtitle 2", <<"AIL Report">>),
         Shape("picture", "Logo", <<>>)>>)

Body == Page("Blank", <<TextBox("AIL body")>>)

Closer ==
  Page("Title Slide",
       <<Shape("placeholder", "Title 1", <<"Thank you, ", "AIL">>),
         Shape("placeholder", "Subtitle 2", <<>>)>>)

TemplateFile(state, slides) == [state |-> state, slides |-> slides]

\* (template_path, the file at that path, affiliate): no path, a path to no
\* file, a file that does not load, and templates of 1, 2 and 5 pages
Deployments ==
  {<<"", TemplateFile("none", <<>>), "">>,
   <<"template.pptx", TemplateFile("missing", <<>>), "APC">>,
   <<"template.pptx", TemplateFile("corrupt", <<>>), "">>,
   <<"template.pptx", TemplateFile("ok", <<Cover>>), "APC">>,
   <<"template.pptx", TemplateFile("ok", <<Cover, Closer>>), "APC">>,
   <<"template.pptx", TemplateFile("ok", <<Cover, Body, Body, Body, Closer>>), "">>}

MaxSlides == 2

InitGenerate ==
  /\ data = StoreBookFirst
  /\ mapping = EmptyDict
  /\ return_column_mapping = FALSE
  /\ result = ReturnNone
  /\ pc = "idle"
  /\ sizing = NoCall
  /\ rendering = NoCall
  /\ heading = NoCall
  /\ styling = NoCall
  /\ \E deployment \in Deployments, slides_mapping \in BoundedSeq(SlideConfigs, MaxSlides) :
       gen = NewGenerator(deployment[1], deployment[2], deployment[3], slides_mapping)

NextGenerate ==
  \/ Construct
  \/ GenerateBegin
  \/ GenerateSlide
  \/ ReAddEndSlide
  \/ Save

SpecGenerate == InitGenerate /\ [][NextGenerate]_vars

\* two calls of generate on one generator
NextRegenerate ==
  \/ NextGenerate
  \/ GenerateAgain

SpecRegenerate == InitGenerate /\ [][NextRegenerate]_vars

-----------------------------------------------------------------------------
(* PPTBuilder.add_table: the text of one data cell of a column that has a  *)
(* percentage number format, lines 474-498. A float is an exact fraction;  *)
(* the values are decimals of a few digits, for which the binary rounding  *)
(* of * 100 and / 100 is far below the one decimal that is printed.        *)

RECURSIVE IntStr(_)
IntStr(k) ==
  IF k < 10 THEN Ch("0123456789", k + 1)
  ELSE IntStr(k \div 10) \o Ch("0123456789", (k % 10) + 1)

\* f"{x:.1f}": the sign, and the magnitude rounded to the nearest tenth. A
\* decimal midway between two tenths is printed as the tenth nearest to its
\* binary value, which is either neighbour: both are outcomes.
OneDecimal(x) ==
  LET mag == FAbs(x)
      tenths == (mag.n * 10) \div mag.d
      rest == (mag.n * 10) % mag.d
      rounded == IF 2 * rest < mag.d THEN {tenths}
                 ELSE IF 2 * rest > mag.d THEN {tenths + 1}
                 ELSE {tenths, tenths + 1}
      sign == IF x.n < 0 THEN "-" ELSE ""
  IN {sign \o IntStr(t \div 10) \o "." \o IntStr(t % 10) : t \in rounded}

\* a percentage column whose boundary values are scaled as well
FormatPercentageInclusive(value_float) ==
  IF FLeq(value_float, FInt(1))
    THEN {text \o "%" : text \in OneDecimal(FMul(value_float, FInt(100)))}
  ELSE IF FLeq(FInt(100), value_float)
    THEN {text \o "%" : text \in OneDecimal(FDiv(value_float, FInt(100)))}
  ELSE {text \o "%" : text \in OneDecimal(value_float)}

\* lines 484-495: format_type == "percentage"
FormatPercentage(value_float) ==
  IF FLess(value_float, FInt(1))
    THEN {text \o "%" : text \in OneDecimal(FMul(value_float, FInt(100)))}
  ELSE IF FLess(FInt(100), value_float)
    THEN {text \o "%" : text \in OneDecimal(FDiv(value_float, FInt(100)))}
  ELSE {text \o "%" : text \in OneDecimal(value_float)}

\* lines 496-498: format_type == "percentage_decimal"
FormatPercentageDecimal(value_float) ==
  {text \o "%" : text \in OneDecimal(FMul(value_float, FInt(100)))}

\* lines 475-498: the texts the cell can get; a NaN value is cleaned to ""
\* before any number format is looked at
CellText(value, format_type) ==
  IF value.nan THEN {""}
  ELSE IF format_type = "percentage" THEN FormatPercentage(value.float)
  ELSE FormatPercentageDecimal(value.float)

\* one data cell of add_table is rendered
RenderCell ==
  /\ rendering.at = "cell"
  /\ \E text \in CellText(rendering.value, rendering.format_type) :
       rendering' = [rendering EXCEPT !.at = "done", !.text = text]
  /\ UNCHANGED <<data, mapping, return_column_mapping, result, pc, sizing, gen, heading, styling>>

\* the cell values: NaN, and the decimals of up to MaxMantissa in the last
\* places, from thousandths to tens, of either sign
MaxMantissa == 460

Thousandths(k) == Frac(k, 1000)

CellValues ==
  {[nan |-> TRUE, float |-> FInt(0)]}
    \cup {[nan |-> FALSE, float |-> Thousandths(sign * mantissa * place)] :
            sign \in {-1, 1}, mantissa \in 0..MaxMantissa,
            place \in {1, 10, 100, 1000, 10000}}

PercentFormats == {"percentage", "percentage_decimal"}

InitFormat ==
  /\ data = <<>>
  /\ mapping = EmptyDict
  /\ return_column_mapping = FALSE
  /\ result = ReturnNone
  /\ pc = "idle"
  /\ sizing = NoCall
  /\ gen = NoCall
  /\ heading = NoCall
  /\ styling = NoCall
  /\ \E value \in CellValues, format_type \in PercentFormats :
       rendering = [at |-> "cell", value |-> value, format_type |-> format_type,
                    text |-> ""]

NextFormat == RenderCell

SpecFormat == InitFormat /\ [][NextFormat]_vars

-----------------------------------------------------------------------------
(* The title and the subtitle of one page, step by step: the statements of *)
(* _generate_content_slide (lines 533-619), _generate_table_slide (lines   *)
(* 814-909) and _generate_title_slide (lines 441-494) in program order,    *)
(* then the rest of the page.                                              *)

\* what a step wrote, and the index of the shape it wrote to
Wrote(what, index) == [what |-> what, index |-> index]

\* a page of slide_type that add_slide has just made from a layout
NewHeading(slide_config, layout_shapes) ==
  [at |-> IF slide_config.slide_type = "title" THEN "title_loop" ELSE "title_placeholder",
   slide_config |-> slide_config,
   layout_shapes |-> layout_shapes,
   shapes |-> layout_shapes,
   title_found |-> FALSE,
   subtitle_found |-> FALSE,
   written |-> <<>>]

HeadingTitle == CleanText(heading.slide_config.title)
HeadingSubtitle == CleanText(heading.slide_config.subtitle)
HeadingTitleColor == MergedFontColor("#004E6F", heading.slide_config.title_formatting)
HeadingSubtitleColor == MergedFontColor("#009CDE", heading.slide_config.subtitle_formatting)

\* lines 533-565 (814-846): the title goes to the first shape that passes the
\* title test
SetTitlePlaceholder ==
  /\ heading.at = "title_placeholder"
  /\ \E ti \in {IF HeadingTitle # "" THEN FirstTitleShape(heading.shapes) ELSE 0} :
       heading' =
         IF ti = 0 THEN [heading EXCEPT !.at = "subtitle_placeholder"]
         ELSE [heading EXCEPT
                 !.at = IF ParsesAsColor(HeadingTitleColor)
                          THEN "subtitle_placeholder" ELSE "raised",
                 !.shapes[ti].runs = <<HeadingTitle>>,
                 !.title_found = ParsesAsColor(HeadingTitleColor),
                 !.written = Append(@, Wrote("title", ti))]
  /\ UNCHANGED <<data, mapping, return_column_mapping, result, pc, sizing, gen, rendering, styling>>

\* lines 567-599 (848-880): the subtitle goes to the first shape with
\* "subtitle" in its name
SetSubtitlePlaceholder ==
  /\ heading.at = "subtitle_placeholder"
  /\ \E si \in {IF HeadingSubtitle # "" THEN FirstSubtitleShape(heading.shapes) ELSE 0} :
       heading' =
         IF si = 0 THEN [heading EXCEPT !.at = "title_box"]
         ELSE [heading EXCEPT
                 !.at = IF ParsesAsColor(HeadingSubtitleColor) THEN "title_box" ELSE "raised",
                 !.shapes[si].runs = <<HeadingSubtitle>>,
                 !.subtitle_found = ParsesAsColor(HeadingSubtitleColor),
                 !.written = Append(@, Wrote("subtitle", si))]
  /\ UNCHANGED <<data, mapping, return_column_mapping, result, pc, sizing, gen, rendering, styling>>

\* lines 601-609 (889-898): a text box for a title that found no placeholder
AddTitleBox ==
  /\ heading.at = "title_box"
  /\ heading' =
       IF ~heading.title_found /\ HeadingTitle # ""
         THEN [heading EXCEPT
                 !.at = IF ParsesAsColor(HeadingTitleColor) THEN "subtitle_box" ELSE "raised",
                 !.shapes = Append(@, TextBox(HeadingTitle)),
                 !.written = Append(@, Wrote("title", Len(heading.shapes) + 1))]
         ELSE [heading EXCEPT !.at = "subtitle_box"]
  /\ UNCHANGED <<data, mapping, return_column_mapping, result, pc, sizing, gen, rendering, styling>>

\* lines 611-619 (900-909): a text box for a subtitle that found no placeholder
AddSubtitleBox ==
  /\ heading.at = "subtitle_box"
  /\ heading' =
       IF HeadingSubtitle # "" /\ ~heading.subtitle_found
         THEN [heading EXCEPT
                 !.at = IF ParsesAsColor(HeadingSubtitleColor) THEN "body" ELSE "raised",
                 !.shapes = Append(@, TextBox(HeadingSubtitle)),
                 !.written = Append(@, Wrote("subtitle", Len(heading.shapes) + 1))]
         ELSE [heading EXCEPT !.at = "body"]
  /\ UNCHANGED <<data, mapping, return_column_mapping, result, pc, sizing, gen, rendering, styling>>

\* lines 621-775 (911-1236): the chart, the table or the content of the page,
\* after its title and subtitle
PopulateBody ==
  /\ heading.at = "body"
  /\ \E populated \in {PopulateSlide(heading.layout_shapes, heading.slide_config,
                                     data, FALSE)} :
       heading' = [heading EXCEPT
                     !.at = "done",
                     !.shapes = populated.shapes,
                     !.written = IF populated.shapes # heading.shapes
                                   THEN Append(@, Wrote("body", Len(populated.shapes)))
                                   ELSE @]
  /\ UNCHANGED <<data, mapping, return_column_mapping, result, pc, sizing, gen, rendering, styling>>

\* the text boxes of a title page in the log of writes: the title's box, when
\* there is one, comes before the subtitle's
BoxesWritten(h, boxed) ==
  LET first == Len(h.shapes) + 1
      title_box == ~h.title_found /\ h.slide_config.title # ""
      subtitle_box == ~h.subtitle_found /\ h.slide_config.subtitle # ""
      w1 == IF title_box /\ first <= Len(boxed)
              THEN Append(h.written, Wrote("title", first)) ELSE h.written
      second == IF title_box THEN first + 1 ELSE first
  IN IF subtitle_box /\ second <= Len(boxed)
       THEN Append(w1, Wrote("subtitle", second)) ELSE w1

\* lines 441-480: the loop of _generate_title_slide
TitleLoop ==
  /\ heading.at = "title_loop"
  /\ \E looped \in {TitleSlideLoop(heading.shapes, 1, heading.slide_config,
                                     FALSE, FALSE, <<>>)} :
       heading' = [heading EXCEPT
                     !.at = IF looped.ok THEN "title_slide_boxes" ELSE "raised",
                     !.shapes = looped.shapes,
                     !.written = looped.written,
                     !.title_found = looped.title_found,
                     !.subtitle_found = looped.subtitle_found]
  /\ UNCHANGED <<data, mapping, return_column_mapping, result, pc, sizing, gen, rendering, styling>>

\* lines 482-494: the text boxes of _generate_title_slide
AddTitleSlideBoxes ==
  /\ heading.at = "title_slide_boxes"
  /\ \E boxed \in {TitleSlideBoxes([shapes |-> heading.shapes, ok |-> TRUE,
                                    title_found |-> heading.title_found,
                                    subtitle_found |-> heading.subtitle_found],
                                   heading.slide_config)} :
       heading' = [heading EXCEPT
                     !.at = IF boxed.ok THEN "done" ELSE "raised",
                     !.shapes = boxed.shapes,
                     !.written = BoxesWritten(heading, boxed.shapes)]
  /\ UNCHANGED <<data, mapping, return_column_mapping, result, pc, sizing, gen, rendering, styling>>

\* the shapes a layout can give a page: placeholders with and without a
\* title or subtitle name, and a picture
LayoutShapes ==
  {Shape("placeholder", "Title 1", <<>>),
   Shape("placeholder", "Subtitle 2", <<>>),
   Shape("placeholder", "", <<>>),
   Shape("placeholder", "Content Placeholder 3", <<>>),
   Shape("picture", "Picture 4", <<>>)}

MaxShapes == 3

\* page configurations of each type, with and without title and subtitle,
\* and with a title colour that does not parse
HeadingConfigs ==
  {SlideConfig(slide_type, title, subtitle, "", title_formatting, EmptyDict,
               IF slide_type = "table" THEN [data_source |-> "Stock"] ELSE EmptyDict,
               <<>>) :
     slide_type \in {"title", "content", "table"},
     title \in {"", "Q1"},
     subtitle \in {"", "North"},
     title_formatting \in {EmptyDict, [font_color |-> "red"]}}

InitHeadings ==
  /\ data = StoreBookFirst
  /\ mapping = EmptyDict
  /\ return_column_mapping = FALSE
  /\ result = ReturnNone
  /\ pc = "idle"
  /\ sizing = NoCall
  /\ gen = NoCall
  /\ rendering = NoCall
  /\ styling = NoCall
  /\ \E slide_config \in HeadingConfigs, layout_shapes \in BoundedSeq(LayoutShapes, MaxShapes) :
       heading = NewHeading(slide_config, layout_shapes)

NextHeadings ==
  \/ SetTitlePlaceholder
  \/ SetSubtitlePlaceholder
  \/ AddTitleBox
  \/ AddSubtitleBox
  \/ PopulateBody
  \/ TitleLoop
  \/ AddTitleSlideBoxes

SpecHeadings == InitHeadings /\ [][NextHeadings]_vars

\* the pages of a deck in turn, and the steps within one page
InitOrder == InitGenerate \/ InitHeadings

NextOrder == NextGenerate \/ NextHeadings

SpecOrder == InitOrder /\ [][NextOrder]_vars

-----------------------------------------------------------------------------
(* PPTBuilder.add_table: the type of every data row and the style of every *)
(* data cell.  The DataFrame is a list of rows, each with its index label   *)
(* and its cells; a cell of the table is whether it has a run of text, its  *)
(* fill colour and the colour, weight and size of its font.                 *)

UpperChar(c) ==
  IF \E u \in DOMAIN LowerOf : LowerOf[u] = c
    THEN CHOOSE u \in DOMAIN LowerOf : LowerOf[u] = c
    ELSE c

RECURSIVE StrUpper(_)
StrUpper(s) ==
  IF Len(s) = 0 THEN "" ELSE UpperChar(Ch(s, 1)) \o StrUpper(SubSeq(s, 2, Len(s)))

StartsWith(s, prefix) == Len(prefix) <= Len(s) /\ SubSeq(s, 1, Len(prefix)) = prefix

\* str(value) of a cell: "nan" for NaN, the digits of a number
CellAsStr(c) == IF c = NaN THEN "nan" ELSE IF c.txt # "" THEN c.txt ELSE IntStr(c.num)

\* a DataFrame with the default RangeIndex: the label of a row is its position
NewFrame(rows) == [i \in 1..Len(rows) |-> [label |-> i - 1, cells |-> rows[i]]]

\* _get_table_data, lines 871-892: result_df[mask] keeps the rows that pass
\* the filter, each with the label it had
RECURSIVE FilterFrame(_, _, _)
FilterFrame(frame, cols, filters) ==
  IF filters = <<>> THEN frame
  ELSE LET Kept(row) == ApplyFilter(Table(cols, <<row.cells>>), Head(filters)).rows # <<>>
       IN FilterFrame(SelectSeq(frame, Kept), cols, Tail(filters))

\* lines 117-125: a DataFrame without rows becomes one row of messages
NonEmptyFrame(frame, cols) ==
  IF Len(frame) = 0
    THEN <<[label |-> 0, cells |-> [j \in 1..Len(cols) |-> Txt("No data available")]]>>
    ELSE frame

\* lines 145-180: the type of one row; idx is the index label of the row
DetectRowType(idx, row, data_len, num_cols) ==
  LET first_col_value == IF Len(row) > 0 THEN StrUpper(StrStrip(CellAsStr(row[1]))) ELSE ""
      second_isna == IF Len(row) > 1 THEN row[2] = NaN ELSE TRUE
      second_col_value == IF Len(row) > 1 /\ row[2] # NaN
                            THEN StrStrip(CellAsStr(row[2])) ELSE ""
      last == IF Len(row) < num_cols THEN Len(row) ELSE num_cols
      has_data == \E i \in 3..last : row[i] # NaN /\ StrStrip(CellAsStr(row[i])) # ""
  IN IF StrIn("TOTAL", first_col_value)
       THEN IF \E marker \in {"AIL", "TOTAL", "GRAND"} : StartsWith(first_col_value, marker)
              THEN "total"
            ELSE IF idx = data_len - 1 THEN "total"
            ELSE "subtotal"
     ELSE IF second_isna \/ second_col_value = ""
       THEN IF first_col_value # "" /\ first_col_value # "NAN" /\ has_data
              THEN "subtotal" ELSE "regular"
     ELSE "regular"

\* PPTFormatter.default_font_size without a "fonts" section in the config
DefaultFontSize == 12

\* lines 406-413 and 416: formatting.get("data_formatting", default_data_formatting)
DataFormatting(formatting, data_font_size) ==
  IF Has(formatting, "data_formatting") THEN formatting.data_formatting
  ELSE [font_size |-> data_font_size, bold |-> FALSE, font_color |-> "#000000",
        fill_color |-> "#FFFFFF", alignment |-> "left"]

\* lines 447-468: the formatting of a row by its type
RowFormatting(row_type, formatting, data_font_size) ==
  IF row_type = "total"
    THEN [font_size |-> data_font_size, bold |-> TRUE, fill_color |-> "#004E6F",
          font_color |-> "#FFFFFF", alignment |-> "left"]
  ELSE IF row_type = "subtotal"
    THEN [font_size |-> data_font_size, bold |-> TRUE, fill_color |-> "#E6F2F8",
          font_color |-> "#000000", alignment |-> "left"]
  ELSE ("fill_color" :> "#FFFFFF") @@ DataFormatting(formatting, data_font_size)

\* lines 535-546: one rule of conditional_colors on a cell of column col_name;
\* the colour it gives, "" when it does not fire (float(value) raises for
\* text, and no comparison with NaN is true)
RuleColor(cond, col_name, value) ==
  LET condition == IF Has(cond, "condition") THEN cond.condition ELSE "<"
      threshold == IF Has(cond, "threshold") THEN cond.threshold ELSE 0
  IN IF /\ Has(cond, "column") /\ cond.column = col_name
        /\ value # NaN /\ value.txt = ""
        /\ \/ condition = "<" /\ value.num < threshold
           \/ condition = ">" /\ value.num > threshold
           \/ condition = "==" /\ value.num = threshold
       THEN IF Has(cond, "color") THEN cond.color ELSE "#004E6F"
       ELSE ""

\* lines 533-546: the rules in order, a later rule that fires replaces the
\* colour of an earlier one
RECURSIVE ConditionalColor(_, _, _, _)
ConditionalColor(conds, col_name, value, color) ==
  IF conds = <<>> THEN color
  ELSE ConditionalColor(Tail(conds), col_name, value,
                        IF RuleColor(Head(conds), col_name, value) # ""
                          THEN RuleColor(Head(conds), col_name, value) ELSE color)

\* the colour the conditional rules give a cell, "" when none fires
FiredColor(formatting, col_name, value) ==
  IF Has(formatting, "conditional_colors")
    THEN ConditionalColor(formatting.conditional_colors, col_name, value, "")
    ELSE ""

\* lines 473-527: a cell has a run of text unless its value is cleaned to ""
CellHasText(value) == value # NaN /\ StrStrip(CellAsStr(value)) # ""

NewCell(value) ==
  [has_text |-> CellHasText(value), fill_color |-> "", font_color |-> "",
   bold |-> FALSE, font_size |-> 0]

\* PPTFormatter.format_table_cell: the fill of the cell, then every run of
\* its text (format_text_run sets a font size in every case)
FormatTableCell(cell, f) ==
  [cell EXCEPT
     !.fill_color = IF Has(f, "fill_color") THEN f.fill_color ELSE @,
     !.font_size = IF ~cell.has_text THEN @
                   ELSE IF Has(f, "font_size") THEN f.font_size ELSE DefaultFontSize,
     !.bold = IF cell.has_text /\ Has(f, "bold") THEN f.bold ELSE @,
     !.font_color = IF cell.has_text /\ Has(f, "font_color") THEN f.font_color ELSE @]

\* lines 470-558: one data cell: the row formatting, with the font colour of
\* the conditional rule that fired
PopulateCell(value, col_name, row_formatting, formatting) ==
  LET Colored(color) ==
        FormatTableCell(NewCell(value),
                        IF color = "" THEN row_formatting
                        ELSE ("font_color" :> color) @@ row_formatting)
  IN Colored(FiredColor(formatting, col_name, value))

\* PPTFormatter.format_table on the data rows: data_formatting, then
\* cell_formatting, on every cell
FormatDataCell(cell, formatting) ==
  LET AfterData(c) ==
        IF Has(formatting, "cell_formatting")
          THEN FormatTableCell(c, formatting.cell_formatting) ELSE c
  IN AfterData(IF Has(formatting, "data_formatting")
                 THEN FormatTableCell(cell, formatting.data_formatting) ELSE cell)

\* add_table(slide, data, ..., formatting) up to line 141
NewStyling(frame, cols, formatting) ==
  [at |-> "detect",
   cols |-> cols,
   frame |-> NonEmptyFrame(frame, cols),
   formatting |-> formatting,
   data_font_size |-> BaseFontSizes(Len(NonEmptyFrame(frame, cols))).data,
   row_types |-> <<>>,
   cells |-> <<>>,
   fired |-> <<>>]

\* lines 143-182: the loop that detects the row types
DetectRowTypes ==
  /\ styling.at = "detect"
  /\ styling' = [styling EXCEPT
       !.at = "populate",
       !.row_types = [i \in 1..Len(styling.frame) |->
                        DetectRowType(styling.frame[i].label, styling.frame[i].cells,
                                      Len(styling.frame), Len(styling.cols))]]
  /\ UNCHANGED <<data, mapping, return_column_mapping, result, pc, sizing, gen, rendering, heading>>

\* lines 443-558: the next data row is populated, cell by cell
PopulateRow ==
  /\ styling.at = "populate"
  /\ Len(styling.cells) < Len(styling.frame)
  /\ LET row_idx == Len(styling.cells) + 1
         row_data == styling.frame[row_idx].cells
         row_formatting == RowFormatting(styling.row_types[row_idx], styling.formatting,
                                         styling.data_font_size)
     IN styling' = [styling EXCEPT
          !.cells = Append(@, [j \in 1..Len(row_data) |->
                                 PopulateCell(row_data[j], styling.cols[j], row_formatting,
                                              styling.formatting)]),
          !.fired = Append(@, [j \in 1..Len(row_data) |->
                                 FiredColor(styling.formatting, styling.cols[j],
                                            row_data[j])])]
  /\ UNCHANGED <<data, mapping, return_column_mapping, result, pc, sizing, gen, rendering, heading>>

\* lines 560-562: format_table, when the formatting passed is not empty
FormatTable ==
  /\ styling.at = "populate"
  /\ Len(styling.cells) = Len(styling.frame)
  /\ styling' = [styling EXCEPT
       !.at = "done",
       !.cells = IF styling.formatting = EmptyDict THEN @
                 ELSE [i \in 1..Len(@) |->
                         [j \in 1..Len(@[i]) |-> FormatDataCell(@[i][j], styling.formatting)]]]
  /\ UNCHANGED <<data, mapping, return_column_mapping, result, pc, sizing, gen, rendering, heading>>

\* the tables: rows of every type, in every order
StyleColumns == <<"Region", "Units", "Share">>

StyleRows ==
  {<<Txt("East"), Num(5), Num(40)>>,
   <<Txt("North Zone"), NaN, Num(45)>>,
   <<Txt("Zone Total"), Num(9), Num(45)>>,
   <<Txt("Grand Total"), Num(14), Num(85)>>,
   <<NaN, NaN, Num(3)>>}

MaxStyleRows == 3

ShareAtLeast(n) == [column |-> "Share", operator |-> ">=", value |-> Num(n)]

ShareAbove(n, color) ==
  [column |-> "Share", condition |-> ">", threshold |-> n, color |-> color]

\* formatting=None, and formatting configurations with and without rules,
\* data_formatting, cell_formatting and header_formatting
StyleFormattings ==
  {EmptyDict,
   [conditional_colors |-> <<ShareAbove(41, "#C00000")>>],
   [conditional_colors |-> <<ShareAbove(41, "#C00000")>>,
    data_formatting |-> [font_color |-> "#333333"]],
   [data_formatting |-> [fill_color |-> "#F2F2F2", bold |-> FALSE]],
   [conditional_colors |-> <<ShareAbove(41, "#C00000")>>,
    cell_formatting |-> [font_size |-> 8]],
   [header_formatting |-> [fill_color |-> "#000000"]]}

InitStyle ==
  /\ data = EmptyStore
  /\ mapping = EmptyDict
  /\ return_column_mapping = FALSE
  /\ result = ReturnNone
  /\ pc = "idle"
  /\ sizing = NoCall
  /\ gen = NoCall
  /\ rendering = NoCall
  /\ heading = NoCall
  /\ \E rows \in BoundedSeq(StyleRows, MaxStyleRows), filters \in {<<>>, <<ShareAtLeast(41)>>},
        formatting \in StyleFormattings :
       styling = NewStyling(FilterFrame(NewFrame(rows), StyleColumns, filters),
                            StyleColumns, formatting)

NextStyle ==
  \/ DetectRowTypes
  \/ PopulateRow
  \/ FormatTable

SpecStyle == InitStyle /\ [][NextStyle]_vars

-----------------------------------------------------------------------------
(* Properties of _get_table_data.                                          *)

Returned == pc = "returned"

Requested == IF Has(mapping, "columns") THEN mapping.columns ELSE <<>>

\* under SpecSelect the call reads the first sheet of "Sales", or "Stock"
SelectSource == IF mapping.data_source = "Sales" THEN SalesQ1 ELSE Stock

FilteredSource ==
  ApplyFilters(SelectSource, IF Has(mapping, "filters") THEN mapping.filters ELSE <<>>)

\* the source column a requested name resolves to, "" when no strategy finds one
Resolved(name) == MatchColumn(name, SelectSource.cols).col

\* the column each requested name resolves to, in request order
RECURSIVE ResolvedEach(_)
ResolvedEach(names) ==
  IF names = <<>> THEN <<>>
  ELSE <<Resolved(Head(names))>> \o ResolvedEach(Tail(names))

MatchedIn(res) == {i \in 1..Len(res) : res[i] # ""}

MatchedRequests == MatchedIn(ResolvedEach(Requested))

\* the position of the first requested name that resolved to col
FirstRequestFor(res, col) ==
  CHOOSE i \in MatchedIn(res) :
    /\ res[i] = col
    /\ \A j \in MatchedIn(res) : res[j] = col => i <= j

ColumnSet(df) == {df.cols[i] : i \in 1..Len(df.cols)}

NoKeyMatches ==
  LET wanted == StrStrip(mapping.data_source)
  IN \A i \in 1..Len(data) :
       LET key == StrLower(StrStrip(data[i].key))
       IN /\ data[i].key # wanted
          /\ key # StrLower(wanted)
          /\ ~StrIn(StrLower(wanted), key)
          /\ ~StrIn(key, StrLower(wanted))

\* C2: a source name that matches no key of the store yields a table, never
\* None: the placeholder "No data available" for an empty store, otherwise
\* exactly what the same mapping yields when it names the store's first source.
C2_UnknownSourceFallsBack ==
  (Returned /\ TruthyStr(mapping, "data_source") /\ NoKeyMatches) =>
    /\ result.kind \in {"table", "pair"}
    /\ Len(data) = 0 =>
         result.table = Placeholder("Message", "No data available")
    /\ Len(data) > 0 =>
         result = GetTableData(data, ("data_source" :> data[1].key) @@ mapping,
                               return_column_mapping)

C2_Witness ==
  /\ Returned
  /\ data = StoreTableFirst
  /\ TruthyStr(mapping, "data_source") /\ mapping.data_source = "Budget"
  /\ result.table.cols = Stock.cols

\* C3 (as claimed): the call never returns None, whatever the mapping.
C3_NeverNull == Returned => result.kind # "none"

\* C4 (as claimed): with max_rows = N > 0 the returned table has at most N rows,
\* the first N of the filtered table, with or without column selection.
C4_RowCap ==
  (Returned /\ Has(mapping, "max_rows") /\ mapping.max_rows > 0) =>
    /\ Len(result.table.rows) <= mapping.max_rows
    /\ result.table.rows =
         HeadRows(SelectColumns(FilteredSource, result.table.cols), mapping.max_rows).rows

\* C5: when no column selection takes place (columns absent, empty, or no
\* requested name matched) the table holds all source columns in source order.
C5_AllColumnsFallback ==
  (Returned /\ MatchedRequests = {}) =>
    /\ result.kind # "none"
    /\ result.table.cols = SelectSource.cols
    /\ Len(result.table.cols) > 0

C5_Witness ==
  /\ Returned
  /\ Requested = <<"Regoin", "Reg">>
  /\ mapping.data_source = "Stock"
  /\ result.table.cols = <<"Item", "Qty">>

\* C6 (as claimed): after a selection the column mapping has exactly the
\* requested names that matched as keys, each mapped to its column.
C6_MappingTotal ==
  (Returned /\ return_column_mapping /\ MatchedRequests # {}) =>
    /\ DOMAIN result.column_mapping = {Requested[i] : i \in MatchedRequests}
    /\ \A k \in DOMAIN result.column_mapping : result.column_mapping[k] = Resolved(k)

\* C7 (as claimed): with return_column_mapping a call that names a source
\* returns a pair on every return path, the placeholder paths included.
C7_AlwaysPair ==
  (Returned /\ return_column_mapping /\ TruthyStr(mapping, "data_source")) =>
    result.kind = "pair"

\* C8 (as claimed): the request ["Regoin"] against a table with the column
\* "Region" is resolved to "Region" and the mapping holds Regoin -> Region.
C8_TypoResolved ==
  (Returned /\ return_column_mapping /\ Requested = <<"Regoin">>
     /\ InSeq("Region", SelectSource.cols)) =>
    /\ result.kind = "pair"
    /\ "Regoin" \in DOMAIN result.column_mapping
    /\ result.column_mapping["Regoin"] = "Region"
    /\ result.table.cols = <<"Region">>

\* C8 (amended): no strategy resolves "Regoin"; the call falls back to all
\* source columns in source order, and the mapping returned is the identity
\* over them, without a key "Regoin".
C8_TypoFallsBack ==
  (Returned /\ return_column_mapping /\ Requested = <<"Regoin">>
     /\ InSeq("Region", SelectSource.cols)) =>
    /\ result.kind = "pair"
    /\ result.table.cols = SelectSource.cols
    /\ "Regoin" \notin DOMAIN result.column_mapping
    /\ DOMAIN result.column_mapping = ColumnSet(SelectSource)
    /\ \A c \in ColumnSet(SelectSource) : result.column_mapping[c] = c

C8_Witness ==
  /\ Returned /\ return_column_mapping
  /\ Requested = <<"Regoin">>
  /\ InSeq("Region", result.table.cols)
  /\ result.column_mapping["Region"] = "Region"

\* the source columns each strategy, taken alone, accepts for a requested name
ExactCandidates(name, cols) == {c \in cols : c = StrStrip(name)}

CaseInsensitiveCandidates(name, cols) ==
  {c \in cols : StrLower(StrStrip(c)) = StrLower(StrStrip(name))}

SubstringCandidates(name, cols) ==
  {c \in cols : \/ StrIn(StrLower(StrStrip(name)), StrLower(StrStrip(c)))
                \/ StrIn(StrLower(StrStrip(c)), StrLower(StrStrip(name)))}

FuzzyCandidates(name, cols) ==
  {c \in cols : CleanName(StrLower(StrStrip(c))) = CleanName(StrLower(StrStrip(name)))}

NoCandidates(name, cols) ==
  /\ ExactCandidates(name, cols) = {}
  /\ CaseInsensitiveCandidates(name, cols) = {}
  /\ SubstringCandidates(name, cols) = {}
  /\ FuzzyCandidates(name, cols) = {}

\* col is what the first strategy with a candidate gives: an accepted column
\* of that strategy, the shortest one for the substring strategy
FirstStrategyGives(name, cols, col) ==
  IF ExactCandidates(name, cols) # {} THEN col \in ExactCandidates(name, cols)
  ELSE IF CaseInsensitiveCandidates(name, cols) # {}
    THEN col \in CaseInsensitiveCandidates(name, cols)
  ELSE IF SubstringCandidates(name, cols) # {}
    THEN /\ col \in SubstringCandidates(name, cols)
         /\ \A c \in SubstringCandidates(name, cols) : Len(col) <= Len(c)
  ELSE col \in FuzzyCandidates(name, cols)

\* C23: every requested name that the returned mapping holds is mapped to the
\* column of the first strategy, in the order exact, case- and whitespace-
\* insensitive, substring (shortest candidate), separator-normalised, that
\* accepts a column for it; a later strategy does not change that column. A
\* requested name is left out only when no strategy accepts a column or an
\* earlier name already took the column.
C23_FirstStrategyDecides ==
  (Returned /\ return_column_mapping /\ result.kind = "pair") =>
    \A i \in 1..Len(Requested) :
      LET name == Requested[i]
          cols == ColumnSet(SelectSource)
      IN IF name \in DOMAIN result.column_mapping
           THEN FirstStrategyGives(name, cols, result.column_mapping[name])
           ELSE \/ NoCandidates(name, cols)
                \/ \E j \in 1..(i - 1) :
                     /\ Requested[j] \in DOMAIN result.column_mapping
                     /\ FirstStrategyGives(name, cols,
                                           result.column_mapping[Requested[j]])

\* "total-qty" is held by the substring strategy ("total" is part of it)
\* although the separator-normalised comparison would accept "Total Qty",
\* and "total qty" by the case-insensitive one although "Total" is shorter
C23_Witness ==
  /\ Returned /\ return_column_mapping
  /\ Requested = <<"total-qty", "total qty">>
  /\ mapping.data_source = "Sales"
  /\ result.column_mapping["total-qty"] = "Total"
  /\ result.column_mapping["total qty"] = "Total Qty"
  /\ "Total Qty" \in FuzzyCandidates("total-qty", ColumnSet(SelectSource))
  /\ "Total" \in SubstringCandidates("total qty", ColumnSet(SelectSource))

-----------------------------------------------------------------------------
(* Properties of the sizing computation of add_table.                      *)

InCall == sizing.at # "idle"

HeightsNotRaised ==
  /\ FLeq(sizing'.base_row_height, sizing.base_row_height)
  /\ FLeq(sizing'.base_header_height, sizing.base_header_height)

\* C9 (as claimed): no step of the sizing computation raises the row height
\* or the header height, and at most 3 shrink passes are applied.
C9_NeverRaised ==
  [][InCall => (HeightsNotRaised /\ sizing'.shrink_passes <= 3)]_vars

\* C9 (amended): no shrink pass raises the row height or the header height
\* and at most 3 shrink passes are applied; the one step that can raise a
\* height is the readability minimum between the first passes and the final
\* pass.
C9_ShrinkPassesNonIncreasing ==
  [][InCall => /\ sizing.at # "minimum" => HeightsNotRaised
               /\ sizing'.shrink_passes <= 3]_vars

\* a call in which the minimum raised the row height after the first pass and
\* the final pass brought it below the minimum again
C9_Witness ==
  /\ InCall
  /\ sizing.at = "done"
  /\ sizing.shrink_passes = 2
  /\ FLess(sizing.base_row_height, Hundredths(18))

\* C10 (as claimed): add_table completes for every row count and every box;
\* no call ends in an exception.
C10_NeverRaises == InCall => sizing.at # "raised"

Completed == InCall /\ sizing.at = "done"

\* header height + number of data rows x row height, as assigned to the rows
AssignedHeight ==
  TotalHeight(sizing.header_height_set, sizing.row_height_set, sizing.num_data_rows)

\* C27: a completed call whose available height H = min(height, 7.0 - top) is
\* not negative assigns row heights that add up to at most H.
C27_TableWithinBox ==
  (Completed /\ FLeq(FInt(0), sizing.max_available_height))
    => FLeq(AssignedHeight, sizing.max_available_height)

\* 32 rows in a box 1 in high: the final pass has scaled the heights and the
\* table fills 92% of the box
C27_Witness ==
  /\ Completed
  /\ sizing.num_data_rows = 32
  /\ sizing.max_available_height = FInt(1)
  /\ sizing.shrink_passes = 2
  /\ AssignedHeight = Hundredths(92)

\* C30 (as claimed): a completed call assigns every data row a height of at
\* least 0.18 in and the header row a height of at least 0.22 in.
C30_MinimumInForce ==
  Completed => /\ FLeq(Hundredths(18), sizing.row_height_set)
               /\ FLeq(Hundredths(22), sizing.header_height_set)

\* the same statement for the calls in which no shrink pass was applied
MinimumInForceWithoutLaterPass ==
  (Completed /\ sizing.shrink_passes = 0) => C30_MinimumInForce

-----------------------------------------------------------------------------
(* Properties of PPTGenerator.                                             *)

InRun == gen.at # "idle"

\* the page configurations whose generation has been attempted so far
Attempted == IF InRun THEN 1..Len(gen.page_of) ELSE {}

\* the page generated for the i-th page configuration, when there is one
HasPage(i) == gen.page_of[i] # 0
PageFor(i) == gen.slides[gen.page_of[i]]

ShapesOf(page) == {page.shapes[k] : k \in 1..Len(page.shapes)}

HasChart(page) == \E shape \in ShapesOf(page) : shape.kind = "chart"

HasTable(page) == \E shape \in ShapesOf(page) : shape.kind = "table"

\* the page shows the text of one of the content mappings of the configuration
HasContent(page, slide_config) ==
  \E shape \in ShapesOf(page), k \in 1..Len(slide_config.content_mappings) :
    /\ HasTextFrame(shape)
    /\ shape.runs = <<TextValue(data, slide_config.content_mappings[k])>>

HasText(page, text) ==
  \E shape \in ShapesOf(page) : HasTextFrame(shape) /\ shape.runs = <<text>>

ChartPage(slide_config) ==
  slide_config.slide_type \in {"content", "table"} /\ ChartEnabled(slide_config)

\* C11: the page of a content or table configuration whose chart is enabled
\* holds no generated table and no content mapping text, whether or not the
\* chart was placed; and no page holds a chart next to a table or content.
C11_ChartExclusive ==
  \A i \in Attempted :
    HasPage(i) =>
      /\ ChartPage(gen.loaded_mapping[i]) =>
           /\ ~HasTable(PageFor(i))
           /\ ~HasContent(PageFor(i), gen.loaded_mapping[i])
      /\ HasChart(PageFor(i)) =>
           /\ ~HasTable(PageFor(i))
           /\ ~HasContent(PageFor(i), gen.loaded_mapping[i])

\* a deck with a chart that was placed and a chart that failed, both on
\* pages that have content mappings
C11_Witness ==
  /\ InRun /\ gen.at = "done"
  /\ gen.loaded_mapping = <<ContentChart, ContentChartNoAxis>>
  /\ gen.raised_pages = {}
  /\ HasPage(1) /\ HasChart(PageFor(1))
  /\ HasPage(2) /\ ~HasChart(PageFor(2))

\* the neutral messages the orchestrator puts in place of content
UnavailableMessages ==
  {"Chart data unavailable", "Content unavailable - please check data configuration"}

HasUnavailableMessage(page) ==
  \E text \in UnavailableMessages : HasText(page, text)

\* C12 (as claimed): every page of a content or table configuration whose
\* chart is enabled and whose chart was not placed holds an "unavailable"
\* message.
C12_FailedChartMessage ==
  \A i \in Attempted :
    (HasPage(i) /\ ChartPage(gen.loaded_mapping[i]) /\ ~HasChart(PageFor(i)))
      => HasUnavailableMessage(PageFor(i))

\* the table a chart configuration resolves to, with all its columns
ChartSource(slide_config) ==
  LET chart_data_source ==
        IF StrOr(slide_config.chart, "data_source") # "" \/ slide_config.slide_type # "table"
          THEN StrOr(slide_config.chart, "data_source")
          ELSE StrOr(slide_config.table_mapping, "data_source")
  IN GetTableData(data, "data_source" :> chart_data_source, FALSE).table

\* x_column is given and no column of the resolved data equals it, matches
\* it without case, or shares a substring with it
XColumnMissing(slide_config) ==
  /\ StrOr(slide_config.chart, "x_column") # ""
  /\ LET x == StrLower(StrStrip(slide_config.chart.x_column))
     IN \A col \in Columns(ChartSource(slide_config)) :
          LET c == StrLower(StrStrip(col))
          IN c # x /\ ~StrIn(x, c) /\ ~StrIn(c, x)

\* C13 (as claimed): on a chart page whose x_column is missing from the
\* resolved data, no chart shape is placed and an "unavailable" message is
\* placed instead, whatever y columns were resolved.
C13_MissingXNoChart ==
  \A i \in Attempted :
    (HasPage(i) /\ ChartPage(gen.loaded_mapping[i]) /\ XColumnMissing(gen.loaded_mapping[i]))
      => /\ ~HasChart(PageFor(i))
         /\ HasUnavailableMessage(PageFor(i))

\* generate has left its loop: it is at the closer or the save step, or past it
PastLoop ==
  InRun /\ (gen.at \in {"save", "done"} \/ (gen.at = "raised" /\ gen.error = "save"))

\* C14: the page configurations are attempted in list order, whichever of
\* them raise; generate leaves its loop only after the last one, and an error
\* reaches the caller only from loading the template or from saving.
C14_EveryPageAttempted ==
  InRun =>
    /\ gen.attempted = [i \in 1..Len(gen.attempted) |-> i]
    /\ gen.raised_pages \subseteq Attempted
    /\ PastLoop => Len(gen.attempted) = Len(gen.loaded_mapping)
    /\ gen.at = "raised" => gen.error \in {"template", "save"}

\* the first page raised, the second was generated, and the deck was saved
C14_Witness ==
  /\ InRun /\ gen.at = "done" /\ gen.saved
  /\ gen.raised_pages = {1}
  /\ Len(gen.attempted) = 2
  /\ HasPage(2) /\ ~HasUnavailableMessage(PageFor(2))

\* the layout a page was added with
LayoutOf(page) ==
  SlideLayouts[CHOOSE k \in 1..Len(SlideLayouts) : SlideLayouts[k].name = page.layout]

\* C15 (as claimed): a page whose generation raised holds the empty
\* placeholders of its layout and the fallback content, nothing else.
C15_FallbackOnly ==
  \A i \in Attempted :
    (HasPage(i) /\ i \in gen.raised_pages)
      => PageFor(i).shapes
           = FallbackContent(LayoutOf(PageFor(i)).shapes, gen.loaded_mapping[i])

\* C16 (as claimed): a saved deck made from a template of two pages or more
\* has the cover, one page for each page configuration, and a closer.
C16_PageCount ==
  (InRun /\ gen.at = "done" /\ Len(gen.template.slides) >= 2)
    => Len(gen.output) = Len(gen.loaded_mapping) + 2

\* the runs that are the token and nothing else, replaced
ReplaceWholeRuns(runs, affiliate) ==
  [i \in 1..Len(runs) |-> IF runs[i] = "AIL" THEN affiliate ELSE runs[i]]

\* the cover is kept and an affiliate was given
CoverReplaced ==
  InRun /\ gen.preserve_template /\ gen.affiliate # "" /\ Len(gen.slides) > 0

\* C17 (as claimed): on the kept cover, the runs equal to "AIL" hold the
\* affiliate and every other run is as in the template.
C17_WholeRunsOnly ==
  CoverReplaced =>
    \A k \in 1..Len(gen.slides[1].shapes) :
      gen.slides[1].shapes[k].runs
        = ReplaceWholeRuns(gen.template.slides[1].shapes[k].runs, gen.affiliate)

\* C18 (as claimed): with a template path whose file is missing or does not
\* load, the run raises and writes nothing; a run that raises writes nothing.
C18_WholeRunFailures ==
  InRun =>
    /\ (gen.template_path # "" /\ gen.template.state \in {"missing", "corrupt"})
         => (gen.at \in {"new", "raised"} /\ ~gen.saved)
    /\ gen.at = "raised" => ~gen.saved

\* C19 (as claimed): when generate has returned, every page configuration is
\* equal to what was loaded.
C19_ConfigUnchanged ==
  (InRun /\ gen.at = "done") => gen.slides_mapping = gen.loaded_mapping

SecondRunSaved == InRun /\ gen.at = "done" /\ gen.run = "second" /\ ~gen.faulted

\* C28 (as claimed): the deck saved by a second call of generate has as many
\* pages as the deck saved by the first, and the second call keeps a cover
\* only when the template has two pages or more.
C28_SecondRunSamePages ==
  SecondRunSaved =>
    /\ Len(gen.output) = Len(gen.first_output)
    /\ gen.preserve_template => Len(gen.template.slides) >= 2

\* the same statement for the generators whose template has two pages or more
SecondRunSamePagesWithCover ==
  (SecondRunSaved /\ Len(gen.template.slides) >= 2) => C28_SecondRunSamePages

\* and for the generators whose first call saved fewer than two pages
SecondRunSamePagesOfShortDeck ==
  (SecondRunSaved /\ Len(gen.first_output) < 2) => C28_SecondRunSamePages

-----------------------------------------------------------------------------
(* Properties of the cell rendering of add_table.                          *)

\* the cell of a "percentage" column has been rendered from a number
PercentageRendered ==
  /\ rendering.at = "done"
  /\ rendering.format_type = "percentage"
  /\ ~rendering.value.nan

\* the one-decimal texts of a fraction, each followed by "%"
PercentTexts(x) == {text \o "%" : text \in OneDecimal(x)}

\* C20: a value below 1 is rendered times 100, a value above 100 divided by
\* 100, a value from 1 to 100 as it is, with one decimal and "%"; 0.453,
\* 45.3 and 4530 give "45.3%", 1 gives "1.0%" and 100 gives "100.0%".
C20_PercentageBranches ==
  PercentageRendered =>
    LET v == rendering.value.float
    IN /\ FLess(v, FInt(1)) => rendering.text \in PercentTexts(FMul(v, FInt(100)))
       /\ FLess(FInt(100), v) => rendering.text \in PercentTexts(FDiv(v, FInt(100)))
       /\ (FLeq(FInt(1), v) /\ FLeq(v, FInt(100))) => rendering.text \in PercentTexts(v)
       /\ v \in {Thousandths(453), Thousandths(45300), FInt(4530)}
            => rendering.text = "45.3%"
       /\ v = FInt(1) => rendering.text = "1.0%"
       /\ v = FInt(100) => rendering.text = "100.0%"

\* 4530 was rendered, by the divided-by-100 branch
C20_Witness ==
  /\ PercentageRendered
  /\ rendering.value.float = FInt(4530)
  /\ rendering.text = "45.3%"

-----------------------------------------------------------------------------
(* Properties of the title and subtitle steps.                             *)

InPage == heading.at # "idle"

ContentOrTablePage == InPage /\ heading.slide_config.slide_type \in {"content", "table"}

\* the statement-by-statement steps leave what Headings computes in one go
HeadingsAgree ==
  ContentOrTablePage =>
    /\ heading.at = "body"
         => Headings(heading.layout_shapes, heading.slide_config) = Done(heading.shapes)
    /\ heading.at = "raised"
         => Headings(heading.layout_shapes, heading.slide_config) = Raised(heading.shapes)

\* title before subtitle before the rest of the page
StepRank(what) == IF what = "title" THEN 1 ELSE IF what = "subtitle" THEN 2 ELSE 3

WrittenInOrder(written) ==
  \A i, j \in 1..Len(written) :
    i < j => StepRank(written[i].what) <= StepRank(written[j].what)

TitlePlacedBefore(written, j) ==
  \E i \in 1..Len(written) : i < j /\ written[i].what = "title"

\* C21: page configurations are attempted in list order, and on a content or
\* table page the title is written first, then the subtitle, then the chart,
\* table or content; a subtitle is written only after the title, when there
\* is one, has been placed.
C21_FixedOrder ==
  /\ InRun => gen.attempted = [i \in 1..Len(gen.attempted) |-> i]
  /\ ContentOrTablePage =>
       /\ WrittenInOrder(heading.written)
       /\ \A j \in 1..Len(heading.written) :
            (heading.written[j].what = "subtitle" /\ HeadingTitle # "")
              => TitlePlacedBefore(heading.written, j)

\* a page whose only placeholder is named as a subtitle: it took the title,
\* then the subtitle, and the table came last
C21_Witness ==
  /\ ContentOrTablePage
  /\ heading.at = "done"
  /\ Len(heading.layout_shapes) = 1
  /\ heading.layout_shapes[1].name = "Subtitle 2"
  /\ Len(heading.written) = 3
  /\ heading.written[1].what = "title"
  /\ heading.written[2].what = "subtitle"
  /\ heading.written[3].what = "body"

\* the title and the subtitle a page of each type writes
PageHeading(what) ==
  IF heading.slide_config.slide_type = "title"
    THEN IF what = "title" THEN heading.slide_config.title
         ELSE heading.slide_config.subtitle
    ELSE IF what = "title" THEN HeadingTitle ELSE HeadingSubtitle

\* the text shapes of the layout whose name holds the word
NamedShapes(what) ==
  {i \in 1..Len(heading.layout_shapes) :
     /\ HasTextFrame(heading.layout_shapes[i])
     /\ StrIn(what, StrLower(heading.layout_shapes[i].name))}

\* the shapes the title, or the subtitle, was written into
WrittenInto(what) ==
  {heading.written[j].index :
     j \in {k \in 1..Len(heading.written) : heading.written[k].what = what}}

HeadingsPlaced == heading.at \in {"body", "done"}

\* C24 (as claimed): on a page of any of the three types, a title or subtitle
\* whose name a text shape of the layout carries is written into shapes of
\* the layout, and a text box is added for it only when no text shape of the
\* layout carries the name.
C24_PlaceholderBeforeTextBox ==
  HeadingsPlaced =>
    \A what \in {"title", "subtitle"} :
      PageHeading(what) # "" =>
        /\ NamedShapes(what) # {}
             => /\ WrittenInto(what) # {}
                /\ WrittenInto(what) \subseteq 1..Len(heading.layout_shapes)
        /\ (\E i \in WrittenInto(what) : i > Len(heading.layout_shapes))
             => NamedShapes(what) = {}

\* the same statement for content and table pages only
ContentTablePlaceholderFirst == ContentOrTablePage => C24_PlaceholderBeforeTextBox

\* C29 (as claimed): on a content or table page with a title and a subtitle,
\* once both have been resolved some shape of the page holds the title text,
\* and the subtitle was not written into a shape that received the title.
C29_TitleSurvivesSubtitle ==
  (/\ ContentOrTablePage
   /\ heading.at = "body"
   /\ HeadingTitle # ""
   /\ HeadingSubtitle # "")
    => /\ \E i \in 1..Len(heading.shapes) :
            /\ HasTextFrame(heading.shapes[i])
            /\ FrameText(heading.shapes[i].runs) = HeadingTitle
       /\ WrittenInto("title") \cap WrittenInto("subtitle") = {}

\* the same statement for layouts whose first shape passing the title test is
\* not named as a subtitle
TitleSurvivesUnlessSubtitleNamed ==
  (/\ ContentOrTablePage
   /\ FirstTitleShape(heading.layout_shapes) # FirstSubtitleShape(heading.layout_shapes))
    => C29_TitleSurvivesSubtitle

-----------------------------------------------------------------------------
(* Properties of the row types and cell styles of add_table.               *)

RowsTyped == styling.at \in {"populate", "done"}

TableFinished == styling.at = "done"

EmptyCell(c) == c = NaN \/ StrStrip(CellAsStr(c)) = ""

HasTotalKeyword(row) == StrIn("TOTAL", StrUpper(StrStrip(CellAsStr(row[1]))))

\* the rule as stated: position is the place of the row in the table, from 1
RowTypeByRule(position, row, data_len) ==
  IF /\ HasTotalKeyword(row)
     /\ \/ \E marker \in {"AIL", "TOTAL", "GRAND"} :
             StartsWith(StrUpper(StrStrip(CellAsStr(row[1]))), marker)
        \/ position = data_len
    THEN "total"
  ELSE IF /\ (Len(row) < 2 \/ EmptyCell(row[2]))
          /\ \E i \in 3..Len(row) : ~EmptyCell(row[i])
    THEN "subtotal"
  ELSE "regular"

\* C22 (as claimed): every data row with a name in column 0 has the type the
\* rule gives it, with "last row" the last row by position and an unmarked
\* row that holds "TOTAL" and is not last classified by its column 1.
C22_RowTypesByRule ==
  RowsTyped =>
    \A i \in 1..Len(styling.frame) :
      ~EmptyCell(styling.frame[i].cells[1])
        => styling.row_types[i]
             = RowTypeByRule(i, styling.frame[i].cells, Len(styling.frame))

\* in a table whose rows were not filtered, the last row by position is the
\* row the code takes for the last one
LastRowOfUnfilteredTable ==
  RowsTyped =>
    ((\A i \in 1..Len(styling.frame) : styling.frame[i].label = i - 1)
       => \A i \in 1..Len(styling.frame) :
            (HasTotalKeyword(styling.frame[i].cells) /\ i = Len(styling.frame))
              => styling.row_types[i] = "total")

\* the rule and the code agree on the rows without "TOTAL" whose column 0 holds
\* a name
RowTypesByRuleWithoutKeyword ==
  RowsTyped =>
    \A i \in 1..Len(styling.frame) :
      (~HasTotalKeyword(styling.frame[i].cells) /\ ~EmptyCell(styling.frame[i].cells[1]))
        => styling.row_types[i]
             = RowTypeByRule(i, styling.frame[i].cells, Len(styling.frame))

\* the cells for which a conditional rule fired
FiredCells ==
  {<<i, j>> \in (1..Len(styling.fired)) \X (1..Len(styling.cols)) : styling.fired[i][j] # ""}

\* C25 (as claimed): in the finished table, a cell for which a conditional
\* rule fired has the colour of the rule as its font colour.
C25_ConditionalColorFinal ==
  TableFinished =>
    \A c \in FiredCells : styling.cells[c[1]][c[2]].font_color = styling.fired[c[1]][c[2]]

\* before format_table runs, the colour of the rule is the font colour
ConditionalColorUntilFormatTable ==
  styling.at = "populate" =>
    \A c \in FiredCells : styling.cells[c[1]][c[2]].font_color = styling.fired[c[1]][c[2]]

TextCells ==
  {<<i, j>> \in (1..Len(styling.cells)) \X (1..Len(styling.cols)) :
     styling.cells[i][j].has_text}

\* C26 (as claimed): in the finished table every cell of a total row has the
\* dark fill and bold text, white unless a conditional rule coloured it, and
\* every cell of a subtotal row the light-blue fill and bold text; the font
\* size of a data cell does not depend on the type of its row.
C26_RowStyleKept ==
  TableFinished =>
    /\ \A i \in 1..Len(styling.cells), j \in 1..Len(styling.cols) :
         LET cell == styling.cells[i][j]
         IN /\ styling.row_types[i] = "total"
                 => /\ cell.fill_color = "#004E6F"
                    /\ cell.has_text => cell.bold
                    /\ (cell.has_text /\ styling.fired[i][j] = "")
                         => cell.font_color = "#FFFFFF"
            /\ styling.row_types[i] = "subtotal"
                 => /\ cell.fill_color = "#E6F2F8"
                    /\ cell.has_text => cell.bold
    /\ \A c, d \in TextCells :
         styling.cells[c[1]][c[2]].font_size = styling.cells[d[1]][d[2]].font_size

\* the same statement for the calls without data_formatting and
\* cell_formatting in the formatting passed
RowStyleKeptWithoutTableFormatting ==
  (/\ TableFinished
   /\ ~Has(styling.formatting, "data_formatting")
   /\ ~Has(styling.formatting, "cell_formatting"))
    => C26_RowStyleKept

-----------------------------------------------------------------------------
(* All calls together.                                                     *)

Init == InitResolve \/ InitSelect \/ InitAddTable \/ InitGenerate \/ InitFormat
          \/ InitHeadings \/ InitStyle

Next == NextResolver \/ NextAddTable \/ NextGenerate \/ NextFormat
          \/ NextHeadings \/ NextStyle \/ GenerateAgain

Spec == Init /\ [][Next]_vars

====
